---- MODULE Spec2Model ----
(***************************************************************************)
(* Model of the editing core of kavi (src/src/buffer.rs): the rope-backed  *)
(* text buffer, its history of Change nodes, the Normal/Insert mode state  *)
(* machine of Buffer::on_event and the motion engine (mto_* functions).    *)
(*                                                                         *)
(* A text is a sequence of one-character strings.  The history is an arena *)
(* of Change nodes; `change` is the index of the node the buffer refers to *)
(* (the head).  A parent link is the index of the parent node, 0 for None. *)
(* Every operation works on a buffer record b and returns a buffer record; *)
(* b.st is "ok" while the call is running normally, "Fatal" once an        *)
(* err_at!(Fatal, ..) was returned and propagated by `?`, and "panic" once *)
(* a rope index was out of bounds (ropey panics) or unreachable!() was hit.*)
(* "BadPattern" is the error of a pattern that does not compile.  evnt is  *)
(* the argument of the last call made on the buffer, ret its result.       *)
(***************************************************************************)
EXTENDS Integers, Sequences, FiniteSets, TLC

VARIABLES nodes, change, mode, sticky_col, insert_repeat, last_inserts,
          read_only, mto_find_char, mto_pattern,
          pc, evnt, ret, wctx, loop_n,
          BUFFER_NUM, threads, buffers,
          this, that, ord, acc, calls

vars == <<nodes, change, mode, sticky_col, insert_repeat, last_inserts,
          read_only, mto_find_char, mto_pattern,
          pc, evnt, ret, wctx, loop_n,
          BUFFER_NUM, threads, buffers,
          this, that, ord, acc, calls>>

\* the buffer, and the call running on it
bufvars == <<nodes, change, mode, sticky_col, insert_repeat, last_inserts,
             read_only, mto_find_char, mto_pattern,
             pc, evnt, ret, wctx, loop_n>>
\* the numbering of buffers: the counter behind its Mutex, the threads that
\* construct buffers, and the num fields of the buffers constructed so far
numvars == <<BUFFER_NUM, threads, buffers>>
\* values apart from any buffer: two Cursor values and the results of their
\* comparisons, and an Event used as an accumulator with the calls made on it
valvars == <<this, that, ord, acc, calls>>

\* ------------------------------------------------------------------ bounds
MaxChanges == 2
MaxLog == 2
MaxCount == 2
SpinWrap == 3
MaxThreads == 2
MaxBuffers == 3
MaxCoord == 2
MaxCalls == 4

\* --------------------------------------------------------------- constants
NL == "\n"
TAB == "\t"

\* ----------------------------------------------------------------- helpers
Min(a, b) == IF a <= b THEN a ELSE b
Max(a, b) == IF a >= b THEN a ELSE b
saturating_sub(a, b) == IF a >= b THEN a - b ELSE 0

is_whitespace(ch) == ch \in {" ", NL, TAB}
is_alphanumeric(ch) == ch \in {"a", "b", "c", "d", "e", "f", "g", "h", "i", "X"}

\* limite!(op, limit): clamp op below an exclusive limit.
limite(op, limit) == IF op >= limit THEN saturating_sub(limit, 1) ELSE op

\* Format::trim_newline(s).0 : the line without its trailing newline.
trim_newline(s) ==
    IF Len(s) > 0 /\ s[Len(s)] = NL THEN SubSeq(s, 1, Len(s) - 1) ELSE s

\* --------------------------------------------------------- rope (ropey API)
len_chars(r) == Len(r)
NlCount(r, c) == Cardinality({i \in 1..c : r[i] = NL})
len_lines(r) == NlCount(r, Len(r)) + 1
\* char_to_line(c), defined for c <= len_chars
char_to_line(r, c) == NlCount(r, c)
\* line_to_char(l), defined for l <= len_lines
line_to_char(r, l) ==
    IF l = 0 THEN 0
    ELSE IF l >= len_lines(r) THEN Len(r)
    ELSE CHOOSE i \in 1..Len(r) : r[i] = NL /\ NlCount(r, i) = l
\* line(l), defined for l < len_lines; includes the line's newline
line(r, l) == SubSeq(r, line_to_char(r, l) + 1, line_to_char(r, l + 1))
rope_insert_char(r, c, ch) == SubSeq(r, 1, c) \o <<ch>> \o SubSeq(r, c + 1, Len(r))
\* remove(a..z), defined for a <= z <= len_chars
rope_remove(r, a, z) == SubSeq(r, 1, a) \o SubSeq(r, z + 1, Len(r))

\* ------------------------------------------------------------------ events
Ev(k, m, n, dp, pos, ch) == [k |-> k, m |-> m, n |-> n, dp |-> dp, pos |-> pos, ch |-> ch]
Noop == Ev("Noop", "", 0, "", "", "")
Esc == Ev("Esc", "", 0, "", "", "")
Char(ch) == Ev("Char", "", 0, "", "", ch)
Backspace == Ev("Backspace", "", 0, "", "", "")
Delete == Ev("Delete", "", 0, "", "", "")
Enter == Ev("Enter", "", 0, "", "", "")
Tab == Ev("Tab", "", 0, "", "", "")
FKey == Ev("FKey", "", 1, "", "", "")
Mt(m, n, dp) == Ev("Mt", m, n, dp, "", "")
MtW(m, n, dp, pos) == Ev("Mt", m, n, dp, pos, "")
Md(m, n, dp) == Ev("Md", m, n, dp, "", "")
\* Event::Op, whatever its operation
Op == Ev("Op", "", 0, "", "", "")
\* Mto::CharF / Mto::CharT (n, ch, dp); ch = "" is None
MtChar(m, n, ch, dp) == Ev("Mt", m, n, dp, "", ch)
\* Mto::Bracket(n, yin, yan, dp)
MtBracket(n, yin, yan, dp) == Ev("Mt", "Bracket", n, dp, yan, yin)
\* Mto::Pattern(n, patt, dp); patt = "" is None
MtPattern(n, patt, dp) == Ev("Mt", "Pattern", n, dp, "", patt)
\* Mto::None, the Default of Mto
MtoNone == Ev("Mt", "None", 0, "", "", "")

\* ----------------------------------------------------------- Change nodes
\* Change::start / Default for Change
ChangeStart(rope) == [rope |-> rope, parent |-> 0, children |-> <<>>, cursor |-> 0]

\* Buffer::to_change : the node the buffer refers to
to_change(b) == b.nodes[b.change]
to_char_cursor(b) == to_change(b).cursor
Rope(b) == to_change(b).rope

Panic(b) == [b EXCEPT !.st = "panic"]
Fatal(b) == [b EXCEPT !.st = "Fatal"]
Returns(b, e) == IF b.st = "ok" THEN [b EXCEPT !.ret = e] ELSE b

\* Change::set_cursor through Buffer::set_cursor
set_cursor(b, cursor) == [b EXCEPT !.nodes[b.change].cursor = cursor]

\* to_next_change that forgets the back link of the old head
to_next_change_noParent(b) ==
    LET prev == b.change
        next == Len(b.nodes) + 1
        node == [rope |-> b.nodes[prev].rope, parent |-> 0,
                 children |-> <<prev>>, cursor |-> b.nodes[prev].cursor]
    IN  [b EXCEPT !.nodes = Append(b.nodes, node), !.change = next]

\* Change::to_next_change, and the assignment *change = ... of its callers
to_next_change(b) ==
    LET prev == b.change
        next == Len(b.nodes) + 1
        node == [rope |-> b.nodes[prev].rope, parent |-> 0,
                 children |-> <<prev>>, cursor |-> b.nodes[prev].cursor]
    IN  [b EXCEPT !.nodes = Append([b.nodes EXCEPT ![prev].parent = next], node),
                  !.change = next]

\* Change::insert_char
insert_char(b, ch) ==
    IF b.st # "ok" THEN b
    ELSE IF to_char_cursor(b) > len_chars(Rope(b)) THEN Panic(b)
    ELSE [b EXCEPT !.nodes[b.change].rope = rope_insert_char(Rope(b), to_char_cursor(b), ch),
                   !.nodes[b.change].cursor = to_char_cursor(b) + 1]

\* Change::backspace
backspace(b, n) ==
    IF b.st # "ok" THEN b
    ELSE IF to_char_cursor(b) > 0
         THEN IF to_char_cursor(b) > len_chars(Rope(b)) THEN Panic(b)
              ELSE [b EXCEPT !.nodes[b.change].rope =
                       rope_remove(Rope(b), saturating_sub(to_char_cursor(b), n),
                                   to_char_cursor(b))]
         ELSE b

\* Change::remove_at, the rope.remove(from..to) of a non-empty range
remove_range(b, from, to) ==
    IF from < to
    THEN [b EXCEPT !.nodes[b.change].rope = rope_remove(Rope(b), from, to)]
    ELSE b

\* Change::remove_at(Included(from), Included(to))
remove_at(b, from, to) ==
    IF b.st # "ok" THEN b
    ELSE remove_range(b, Min(from, saturating_sub(len_chars(Rope(b)), 1)),
                      Min(to + 1, len_chars(Rope(b))))

\* Change::remove_at(Included(from), Excluded(to))
remove_at_excluded(b, from, to) ==
    IF b.st # "ok" THEN b
    ELSE remove_range(b, Min(from, saturating_sub(len_chars(Rope(b)), 1)),
                      Min(to, len_chars(Rope(b))))

\* Change::insert: rope.insert(char_idx, text), defined for char_idx <= len_chars
insert(b, char_idx, text) ==
    IF b.st # "ok" THEN b
    ELSE IF char_idx > len_chars(Rope(b)) THEN Panic(b)
    ELSE [b EXCEPT !.nodes[b.change].rope =
             SubSeq(Rope(b), 1, char_idx) \o text \o SubSeq(Rope(b), char_idx + 1, Len(Rope(b)))]

\* cmd_insert_char that edits the head in place, without a new Change
cmd_insert_char_inPlace(b, ch) == IF b.st # "ok" THEN b ELSE insert_char(b, ch)
\* cmd_backspace that edits the head before it advances the history
cmd_backspace_editFirst(b, n) ==
    IF b.st # "ok" THEN b
    ELSE LET b1 == backspace(b, n) IN IF b1.st # "ok" THEN b1 ELSE to_next_change(b1)

\* Buffer::cmd_insert_char / cmd_backspace / cmd_remove_at
cmd_insert_char(b, ch) == IF b.st # "ok" THEN b ELSE insert_char(to_next_change(b), ch)
cmd_backspace(b, n) == IF b.st # "ok" THEN b ELSE backspace(to_next_change(b), n)
\* cmd_remove_at that edits the head in place
cmd_remove_at_inPlace(b, a, z) == IF b.st # "ok" THEN b ELSE remove_at(b, a, z)
cmd_remove_at(b, a, z) == IF b.st # "ok" THEN b ELSE remove_at(to_next_change(b), a, z)
\* Buffer::cmd_insert
cmd_insert(b, char_idx, text) ==
    IF b.st # "ok" THEN b ELSE insert(to_next_change(b), char_idx, text)
\* Buffer::cmd_remove_at(Included(a), Excluded(z))
cmd_remove_at_excluded(b, a, z) ==
    IF b.st # "ok" THEN b ELSE remove_at_excluded(to_next_change(b), a, z)

\* is_modified that looks at the parent link only
is_modified_parentOnly(b) == to_change(b).parent # 0

\* Buffer::is_modified
is_modified(b) == to_change(b).parent # 0 \/ to_change(b).children # <<>>

\* Buffer::to_line_home, defined for cursor <= len_chars
to_line_home(b) == line_to_char(Rope(b), char_to_line(Rope(b), to_char_cursor(b)))
\* Change::to_xy_cursor().col
to_col(b) == to_char_cursor(b) - to_line_home(b)
\* ropey indexes the cursor: char_to_line / chars_at panic beyond len_chars
CursorInRope(b) == to_char_cursor(b) <= len_chars(Rope(b))

\* ------------------------------------------------------------ skip helpers
\* number of whitespace characters taken by take_while from Change::iter(dp)
RECURSIVE ws_run(_, _, _)
ws_run(r, c, dp) ==
    IF dp = "Right"
    THEN IF c < Len(r) /\ is_whitespace(r[c + 1]) THEN 1 + ws_run(r, c + 1, dp) ELSE 0
    ELSE IF c > 0 /\ is_whitespace(r[c]) THEN 1 + ws_run(r, c - 1, dp) ELSE 0

\* Change::skip_whitespace, the cursor after n characters were counted
skip_whitespace_by(b, dp, n) ==
    IF dp = "Left"
    THEN set_cursor(b, saturating_sub(to_char_cursor(b), n))
    ELSE set_cursor(b, Min(to_char_cursor(b) + n, saturating_sub(len_chars(Rope(b)), 1)))

\* Change::skip_whitespace
skip_whitespace(b, dp) ==
    IF b.st # "ok" THEN b
    ELSE IF ~CursorInRope(b) \/ dp \notin {"Left", "Right"} THEN Panic(b)
    ELSE skip_whitespace_by(b, dp, ws_run(Rope(b), to_char_cursor(b), dp))

\* ----------------------------------------------------------------- motions
\* buf.sticky_col = StickyCol::default(), reached only when no `?` returned
sticky_default(b) == IF b.st # "ok" THEN b ELSE [b EXCEPT !.sticky_col = "None"]

\* one turn of the loop of mto_left on a line of m characters
RECURSIVE left_lines(_, _, _)
left_line(r, n, k, m) ==
    IF n = m THEN line_to_char(r, k - 1)
    ELSE IF n < m THEN line_to_char(r, k - 1) + (m - n)
    ELSE left_lines(r, n - m, k - 1)

\* the loop of mto_left over (0..char_to_line(cursor)).rev(); k lines remain
left_lines(r, n, k) ==
    IF k = 0 THEN 0 ELSE left_line(r, n, k, Len(trim_newline(line(r, k - 1))))

\* mto_left, the match on dp
mto_left_to(b, n, dp, cursor, home) ==
    IF dp \notin {"LineBound", "Nobound"} THEN Fatal(b)
    ELSE IF saturating_sub(cursor, n) >= home
    THEN sticky_default(set_cursor(b, saturating_sub(cursor, n)))
    ELSE IF dp = "LineBound" THEN sticky_default(set_cursor(b, home))
    ELSE sticky_default(set_cursor(b, left_lines(Rope(b), n - (cursor - home),
                                                 char_to_line(Rope(b), cursor))))

\* mto_left that takes LineBound as Nobound
mto_left_unbound(b, n, dp) ==
    IF b.st # "ok" THEN b
    ELSE IF ~CursorInRope(b) THEN Panic(b)
    ELSE mto_left_to(b, n, IF dp = "LineBound" THEN "Nobound" ELSE dp,
                     to_char_cursor(b), to_line_home(b))

mto_left(b, n, dp) ==
    IF b.st # "ok" THEN b
    ELSE IF ~CursorInRope(b) THEN Panic(b)
    ELSE mto_left_to(b, n, dp, to_char_cursor(b), to_line_home(b))

\* one turn of the loop of mto_right on a line of m characters at home
RECURSIVE right_lines(_, _, _, _)
right_line(r, n, line_idx, i, m, home) ==
    IF n = m THEN home + saturating_sub(m, 1)
    ELSE IF n < m THEN home + saturating_sub(n, 1)
    ELSE right_lines(r, n - m, line_idx, i + 1)

\* the loop of mto_right over lines_at(line_idx).enumerate().skip(1)
right_lines(r, n, line_idx, i) ==
    IF line_idx + i >= len_lines(r) THEN saturating_sub(len_chars(r), 1)
    ELSE right_line(r, n, line_idx, i, Len(trim_newline(line(r, line_idx + i))),
                    line_to_char(r, line_idx + i))

\* mto_right, the match on dp
mto_right_to(b, n, dp, cursor, line_idx, end) ==
    IF dp \notin {"LineBound", "Nobound"} THEN Fatal(b)
    ELSE IF cursor + n < end THEN sticky_default(set_cursor(b, cursor + n))
    ELSE IF dp = "LineBound" THEN sticky_default(set_cursor(b, saturating_sub(end, 1)))
    ELSE sticky_default(set_cursor(b, right_lines(Rope(b), n - (end - cursor), line_idx, 1)))

\* the end of the cursor's line in mto_right: home + length without newline
line_end_of(b) ==
    to_line_home(b) + Len(trim_newline(line(Rope(b), char_to_line(Rope(b), to_char_cursor(b)))))

mto_right(b, n, dp) ==
    IF b.st # "ok" THEN b
    ELSE IF ~CursorInRope(b) THEN Panic(b)
    ELSE mto_right_to(b, n, dp, to_char_cursor(b),
                      char_to_line(Rope(b), to_char_cursor(b)), line_end_of(b))

\* mto_line_home, the match on pos with the cursor at the line's home
mto_line_home_pos(b, pos) ==
    CASE pos = "TextCol" -> sticky_default(skip_whitespace(b, "Right"))
      [] pos = "StickyCol" -> [b EXCEPT !.sticky_col = "Home"]
      [] pos = "None" -> [b EXCEPT !.sticky_col = "None"]
      [] OTHER -> Fatal(b)

mto_line_home(b, pos) ==
    IF b.st # "ok" THEN b
    ELSE IF ~CursorInRope(b) THEN Panic(b)
    ELSE mto_line_home_pos(set_cursor(b, to_line_home(b)), pos)

\* mto_up / mto_down, the match on pos after the cursor was set
vertical_pos(b, pos) ==
    CASE pos = "TextCol" -> mto_line_home(b, "TextCol")
      [] pos = "None" -> b
      [] OTHER -> Fatal(b)

\* mto_up / mto_down, the cursor on the target row
vertical_to(b, row, pos) ==
    vertical_pos(set_cursor(b, line_to_char(Rope(b), row)
                               + Min(saturating_sub(Len(line(Rope(b), row)), 2), to_col(b))),
                 pos)

mto_up(b, n, pos) ==
    IF b.st # "ok" THEN b
    ELSE IF ~CursorInRope(b) THEN Panic(b)
    ELSE IF char_to_line(Rope(b), to_char_cursor(b)) = 0 THEN b
    ELSE vertical_to(b, saturating_sub(char_to_line(Rope(b), to_char_cursor(b)), n), pos)

mto_down(b, n, pos) ==
    IF b.st # "ok" THEN b
    ELSE IF ~CursorInRope(b) THEN Panic(b)
    ELSE IF len_lines(Rope(b)) = 0
            \/ char_to_line(Rope(b), to_char_cursor(b)) = len_lines(Rope(b)) THEN b
    ELSE vertical_to(b, limite(char_to_line(Rope(b), to_char_cursor(b)) + n,
                               len_lines(Rope(b))), pos)

\* mto_column
mto_column(b, n) ==
    IF b.st # "ok" THEN b
    ELSE IF ~CursorInRope(b) THEN Panic(b)
    ELSE sticky_default(set_cursor(b,
             to_line_home(b)
               + Min(Len(trim_newline(line(Rope(b), char_to_line(Rope(b), to_char_cursor(b))))),
                     n)))

\* mto_row, the match on buf.n_lines(); n is n.saturating_sub(1)
mto_row_to(b, n, pos, row, n_rows) ==
    IF n_rows = 0 THEN b
    ELSE IF n = 0 THEN mto_down(b, saturating_sub(n_rows, 1), pos)
    ELSE IF n < row THEN mto_up(b, row - n, pos)
    ELSE IF n <= n_rows THEN mto_down(b, n - row, pos)
    ELSE mto_down(b, saturating_sub(n_rows, 1), pos)

mto_row(b, n, pos) ==
    IF b.st # "ok" THEN b
    ELSE IF ~CursorInRope(b) THEN Panic(b)
    ELSE mto_row_to(b, saturating_sub(n, 1), pos,
                    char_to_line(Rope(b), to_char_cursor(b)), len_lines(Rope(b)))

\* mto_percent for n < 100, the match on the row computed
mto_percent_to(b, n, row) ==
    IF n < row THEN mto_up(b, row - n, "TextCol") ELSE mto_down(b, n - row, "TextCol")

\* mto_percent; ((n_rows as f64) * (n as f64) / 100.0) as usize is the
\* quotient of the integers
mto_percent(b, n) ==
    IF b.st # "ok" THEN b
    ELSE IF ~CursorInRope(b) THEN Panic(b)
    ELSE IF len_lines(Rope(b)) = 0 THEN b
    ELSE IF n < 100
    THEN mto_percent_to(b, (saturating_sub(len_lines(Rope(b)), 1) * n) \div 100,
                        char_to_line(Rope(b), to_char_cursor(b)))
    ELSE mto_down(b, saturating_sub(len_lines(Rope(b)), 1), "TextCol")

\* mto_cursor
mto_cursor(b, n) ==
    IF b.st # "ok" THEN b
    ELSE set_cursor(b, limite(to_char_cursor(b) + n, len_chars(Rope(b))))

\* mto_line_end, the match on dp after the cursor was set
mto_line_end_pos(b, dp) ==
    CASE dp = "TextCol" -> sticky_default(skip_whitespace(b, "Left"))
      [] dp = "StickyCol" -> [b EXCEPT !.sticky_col = "End"]
      [] dp = "None" -> [b EXCEPT !.sticky_col = "None"]
      [] OTHER -> Fatal(b)

\* mto_line_end after mto_down returned: cursor + m
mto_line_end_at(b, dp) ==
    IF b.st # "ok" THEN b
    ELSE mto_line_end_pos(
             set_cursor(b, to_char_cursor(b)
                           + Len(trim_newline(line(Rope(b),
                                                   char_to_line(Rope(b), to_char_cursor(b)))))),
             dp)

mto_line_end(b, n, dp) ==
    IF b.st # "ok" THEN b
    ELSE mto_line_end_at(mto_down(b, saturating_sub(n, 1), "None"), dp)

\* ------------------------------------------------------ find-char motions
\* the characters the IterChar of mto_char yields: the slice of the cursor's
\* line from chars_at(cursor), read with prev() when dp = Right (reverse is
\* dp == DP::Right) and with next() otherwise
char_items(l, cursor, dp) ==
    IF dp = "Right" THEN [i \in 1..cursor |-> l[cursor + 1 - i]]
    ELSE SubSeq(l, cursor + 1, Len(l))

\* enumerate().filter_map(a == ch).next(): the index of the first ch, -1 None
first_index(items, ch) ==
    IF \E i \in 1..Len(items) : items[i] = ch
    THEN (CHOOSE i \in 1..Len(items) :
              items[i] = ch /\ \A j \in 1..(i - 1) : items[j] # ch) - 1
    ELSE -1

\* .take(n.saturating_sub(1)) and then iter.next()
char_item(items, ch, n) ==
    IF saturating_sub(n, 1) = 0 THEN -1 ELSE first_index(items, ch)

\* mto_char, the match on (item, dp, pos)
mto_char_to(b, item, dp, pos, cursor) ==
    IF item = -1 THEN sticky_default(set_cursor(b, cursor))
    ELSE IF dp = "Right"
    THEN sticky_default(set_cursor(b, IF pos = "f" THEN cursor + item
                                      ELSE saturating_sub(cursor + item, 1)))
    ELSE IF dp = "Left"
    THEN sticky_default(set_cursor(b, IF pos = "f" THEN saturating_sub(cursor, item + 1)
                                      ELSE saturating_sub(cursor, item)))
    ELSE Fatal(b)

\* mto_char on the slice l of the cursor's line: rslice.chars_at(cursor) takes
\* the cursor, an offset into the whole text, as an offset into the line
mto_char_in(b, n, ch, dp, pos, l) ==
    IF to_char_cursor(b) > Len(l) THEN Panic(b)
    ELSE mto_char_to(b, char_item(char_items(l, to_char_cursor(b), dp), ch, n),
                     dp, pos, to_char_cursor(b))

\* mto_char
mto_char(b, e) ==
    IF b.st # "ok" THEN b
    ELSE IF e.m \in {"CharF", "CharT"} /\ e.ch # ""
    THEN IF ~CursorInRope(b) THEN Panic(b)
         ELSE mto_char_in(b, e.n, e.ch, e.dp, IF e.m = "CharF" THEN "f" ELSE "t",
                          line(Rope(b), char_to_line(Rope(b), to_char_cursor(b))))
    ELSE IF (e.m = "CharT" /\ e.ch = "") \/ e.m = "None" THEN b
    ELSE Fatal(b)

\* -------------------------------------------------------- bracket motion
\* the characters Buffer::chars_at(cursor, dp) yields
rope_items(r, cursor, dp) ==
    IF dp = "Left" THEN [i \in 1..cursor |-> r[cursor + 1 - i]]
    ELSE SubSeq(r, cursor + 1, Len(r))

\* the loop of mto_bracket from enumerate index i on: n brackets still to
\* pass, m brackets nested; the index the loop breaks with, -1 for None
RECURSIVE bracket_scan(_, _, _, _, _, _)
bracket_scan(items, i, n, m, yin, yan) ==
    IF i >= Len(items) THEN -1
    ELSE IF items[i + 1] = yin /\ m > 0 THEN bracket_scan(items, i + 1, n, m - 1, yin, yan)
    ELSE IF items[i + 1] = yin /\ n = 0 THEN i
    ELSE IF items[i + 1] = yin THEN bracket_scan(items, i + 1, n - 1, m, yin, yan)
    ELSE IF items[i + 1] = yan THEN bracket_scan(items, i + 1, n, m + 1, yin, yan)
    ELSE bracket_scan(items, i + 1, n, m, yin, yan)

\* cursor -= (break i + 1 | break 0) ; cursor += (break i | break 0)
bracket_move(b, dp, found) ==
    IF found = -1 THEN set_cursor(b, to_char_cursor(b))
    ELSE IF dp = "Left" THEN set_cursor(b, to_char_cursor(b) - (found + 1))
    ELSE set_cursor(b, to_char_cursor(b) + found)

\* mto_bracket
mto_bracket(b, e) ==
    IF b.st # "ok" THEN b
    ELSE IF e.dp \notin {"Left", "Right"} THEN Fatal(b)
    ELSE IF ~CursorInRope(b) THEN Panic(b)
    ELSE bracket_move(b, e.dp,
                      bracket_scan(rope_items(Rope(b), to_char_cursor(b), e.dp),
                                   0, e.n, 0, e.ch, e.pos))

\* ------------------------------------------- sentence and paragraph motion
\* the loop of mto_sentence from enumerate index i on: n boundaries still to
\* find, pch the previous character ("" for None); the index the loop breaks
\* with, -1 when the iterator ends
RECURSIVE sentence_scan(_, _, _, _, _)
sentence_scan(items, i, n, pch, dp) ==
    IF i >= Len(items) THEN -1
    ELSE IF dp = "Right"
    THEN IF pch = "." /\ is_whitespace(items[i + 1])
         THEN (IF n > 1 THEN sentence_scan(items, i + 1, n - 1, ".", dp) ELSE i)
         ELSE IF pch = NL /\ items[i + 1] = NL
         THEN (IF n > 1 THEN sentence_scan(items, i + 1, n - 1, NL, dp) ELSE i)
         ELSE sentence_scan(items, i + 1, n, items[i + 1], dp)
    ELSE IF items[i + 1] = "." /\ is_whitespace(pch)
         THEN (IF n > 1 THEN sentence_scan(items, i + 1, n - 1, ".", dp) ELSE i)
         ELSE IF items[i + 1] = NL /\ pch = NL
         THEN (IF n > 1 THEN sentence_scan(items, i + 1, n - 1, NL, dp) ELSE i)
         ELSE sentence_scan(items, i + 1, n, items[i + 1], dp)

\* mto_sentence after the loop: set_cursor(cursor), skip_whitespace(Right)
sentence_move(b, dp, found) ==
    skip_whitespace(
        set_cursor(b, IF dp = "Left"
                      THEN (IF found = -1 THEN 0
                            ELSE saturating_sub(to_char_cursor(b), found))
                      ELSE (IF found = -1 THEN saturating_sub(len_chars(Rope(b)), 1)
                            ELSE to_char_cursor(b) + found)),
        "Right")

\* mto_sentence
mto_sentence(b, e) ==
    IF b.st # "ok" THEN b
    ELSE IF e.dp \notin {"Left", "Right"} THEN Fatal(b)
    ELSE IF ~CursorInRope(b) THEN Panic(b)
    ELSE sentence_move(b, e.dp,
                       sentence_scan(rope_items(Rope(b), to_char_cursor(b), e.dp),
                                     0, e.n, "", e.dp))

\* the loop of mto_para from enumerate index i on, over the lines
\* Buffer::lines_at(row, dp) yields: n blank lines still to pass; the cursor
\* the loop breaks with
RECURSIVE para_scan(_, _, _, _, _)
para_scan(r, row, i, n, dp) ==
    IF dp = "Right"
    THEN IF row + i >= len_lines(r) THEN saturating_sub(len_chars(r), 1)
         ELSE IF line(r, row + i) = <<>> THEN line_to_char(r, row + i)
         ELSE IF line(r, row + i)[1] = NL
         THEN (IF n = 0 THEN line_to_char(r, row + i)
               ELSE para_scan(r, row, i + 1, n - 1, dp))
         ELSE para_scan(r, row, i + 1, n, dp)
    ELSE IF i >= row THEN 0
         ELSE IF line(r, row - (i + 1)) = <<>> THEN line_to_char(r, row - (i + 1))
         ELSE IF line(r, row - (i + 1))[1] = NL
         THEN (IF n = 0 THEN line_to_char(r, row - (i + 1))
               ELSE para_scan(r, row, i + 1, n - 1, dp))
         ELSE para_scan(r, row, i + 1, n, dp)

\* mto_para; char_to_line(cursor) is taken before the match on the event
mto_para(b, e) ==
    IF b.st # "ok" THEN b
    ELSE IF ~CursorInRope(b) THEN Panic(b)
    ELSE IF e.dp \notin {"Left", "Right"} THEN Fatal(b)
    ELSE set_cursor(b, para_scan(Rope(b), char_to_line(Rope(b), to_char_cursor(b)),
                                 0, e.n, e.dp))

\* --------------------------------------------------------- pattern search
\* str::chars of the pattern strings the events carry.  The patterns are
\* literals, the texts are ASCII: a byte offset is a character offset.
chars(s) ==
    CASE s = "foo" -> <<"f", "o", "o">>
      [] s = "o" -> <<"o">>
      [] s = "bar" -> <<"b", "a", "r">>
      [] s = "z" -> <<"z">>
      [] s = "X" -> <<"X">>
      [] s = "XY" -> <<"X", "Y">>
      [] OTHER -> <<>>

\* pattern strings Regex::new rejects: an unclosed group
BadPatterns == {"("}

\* Regex::find_iter for a literal: the non-overlapping matches from byte i on
RECURSIVE find_iter(_, _, _)
find_iter(text, patt, i) ==
    IF i + Len(patt) > Len(text) THEN <<>>
    ELSE IF SubSeq(text, i + 1, i + Len(patt)) = patt
    THEN <<<<i, i + Len(patt)>>>> \o find_iter(text, patt, i + Len(patt))
    ELSE find_iter(text, patt, i + 1)

RECURSIVE find(_, _)
\* Search::find, .map(|i| m + i)
find_right(m, i) == IF i = -1 THEN -1 ELSE m + i

\* Search::find, the test on the middle match rs[m]
find_half(off, rs, m) ==
    IF rs[m + 1][2] < off \/ off >= rs[m + 1][1]
    THEN find_right(m, find(off, SubSeq(rs, m + 1, Len(rs))))
    ELSE find(off, SubSeq(rs, 1, m))

\* Search::find: Some(i), or -1 for None
find(off, rs) ==
    IF Len(rs) = 0 THEN -1
    ELSE IF Len(rs) = 1 THEN 0
    ELSE find_half(off, rs, Len(rs) \div 2)

\* Search::find_fwd, the rotation of the matches to matches[i..] ++ matches[..i]
rotate(matches, i) ==
    IF i = -1 THEN matches
    ELSE SubSeq(matches, i + 1, Len(matches)) \o SubSeq(matches, 1, i)

\* Search::find_fwd
find_fwd(patt, text, byte_off) ==
    rotate(find_iter(text, patt, 0), find(byte_off, find_iter(text, patt, 0)))

\* Vec::reverse
reverse(ms) == [i \in 1..Len(ms) |-> ms[Len(ms) + 1 - i]]

\* Search::find_rev
find_rev(patt, text, byte_off) == reverse(find_fwd(patt, text, byte_off))

\* mto_pattern, iter.skip(n).next() on the matches ms
pattern_move(b, n, ms) ==
    IF n < Len(ms) THEN set_cursor(b, ms[n + 1][1])
    ELSE set_cursor(b, to_char_cursor(b))

\* mto_pattern
mto_pattern_to(b, e) ==
    IF b.st # "ok" THEN b
    ELSE IF ~(e.m = "Pattern" /\ e.ch # "") THEN Fatal(b)
    ELSE IF e.ch \in BadPatterns THEN [b EXCEPT !.st = "BadPattern"]
    ELSE IF ~CursorInRope(b) \/ e.dp \notin {"Left", "Right"} THEN Panic(b)
    ELSE pattern_move(b, saturating_sub(e.n, 1),
                      IF e.dp = "Right"
                      THEN find_fwd(chars(e.ch), Rope(b), to_char_cursor(b))
                      ELSE find_rev(chars(e.ch), Rope(b), to_char_cursor(b)))

\* DP::dir_xor that hands back the requested direction
dp_dir_xor_requested(dp, rhs) ==
    IF dp \in {"Left", "Right"} /\ rhs \in {"Left", "Right"} THEN rhs ELSE "Fatal"

\* DP::dir_xor ; "Fatal" is the Err
dp_dir_xor(dp, rhs) ==
    IF dp \in {"Left", "Right"} /\ rhs \in {"Left", "Right"}
    THEN (IF dp = rhs THEN "Right" ELSE "Left")
    ELSE "Fatal"

\* Mto::dir_xor ; an event of kind "Fatal" is the Err
dir_xor(e, n, new_dp) ==
    IF e.m = "None" THEN e
    ELSE IF e.m \in {"CharF", "CharT", "Pattern"} /\ dp_dir_xor(e.dp, new_dp) # "Fatal"
    THEN [e EXCEPT !.n = n, !.dp = dp_dir_xor(e.dp, new_dp)]
    ELSE [e EXCEPT !.k = "Fatal"]

\* mto_char(self, e.dir_xor(n, dir)?)
mto_char_r(b, e) == IF e.k = "Fatal" THEN Fatal(b) ELSE mto_char(b, e)
\* mto_pattern(self, e.dir_xor(n, dir)?)
mto_pattern_r(b, e) == IF e.k = "Fatal" THEN Fatal(b) ELSE mto_pattern_to(b, e)

\* ------------------------------------------------------- mode state machine
\* Buffer::mode_normal / Buffer::mode_insert
mode_normal(b) == IF b.st # "ok" THEN b ELSE [b EXCEPT !.mode = "normal"]

\* mode_insert that keeps the Inner::default() mem::replace left behind
mode_insert_fresh(b) ==
    IF b.st # "ok" THEN b
    ELSE [b EXCEPT !.nodes = <<ChangeStart(<<>>)>>, !.change = 1, !.mode = "insert"]

mode_insert(b) == IF b.st # "ok" THEN b ELSE [b EXCEPT !.mode = "insert"]

\* the events Buffer::repeat accepts for a replay
IsRepeatable(e) == e.k \in {"Backspace", "Delete", "Char", "Enter", "Tab"}

RECURSIVE ex_i_event(_, _), replay_log(_, _, _), replay(_, _, _), repeat(_)

\* a catch-all arm that swallows the event
pass_through_consumed(b, e) == Returns(b, Noop)

\* the arm `evnt => evnt` of ex_i_event and of handle_n_event
pass_through(b, e) == Returns(b, e)

\* Buffer::ex_i_event
ex_i_event(b, e) ==
    IF b.st # "ok" THEN b
    ELSE CASE e.k = "Mt" /\ e.m = "Left" -> Returns(mto_left(b, e.n, e.dp), Noop)
           [] e.k = "Mt" /\ e.m = "Right" -> Returns(mto_right(b, e.n, e.dp), Noop)
           [] e.k = "Mt" /\ e.m = "Up" -> Returns(mto_up(b, e.n, e.dp), Noop)
           [] e.k = "Mt" /\ e.m = "Down" -> Returns(mto_down(b, e.n, e.dp), Noop)
           [] e.k = "Mt" /\ e.m = "LineHome" -> Returns(mto_line_home(b, e.dp), Noop)
           [] e.k = "Mt" /\ e.m = "LineEnd" -> Returns(mto_line_end(b, e.n, e.dp), Noop)
           [] e.k = "Esc" ->
                Returns(mode_normal(mto_left(repeat(b), 1, "LineBound")), Noop)
           [] e.k = "Char" -> Returns(cmd_insert_char(b, e.ch), Noop)
           [] e.k = "Backspace" -> Returns(cmd_backspace(b, 1), Noop)
           [] e.k = "Enter" -> Returns(cmd_insert_char(b, NL), Noop)
           [] e.k = "Tab" -> Returns(cmd_insert_char(b, TAB), Noop)
           [] e.k = "Delete" ->
                Returns(cmd_remove_at(b, to_char_cursor(b), to_char_cursor(b)), Noop)
           [] OTHER -> pass_through(b, e)

\* inner loop of Buffer::repeat: the events of the log from position i on
replay_log(b, evnts, i) ==
    IF i > Len(evnts) THEN b
    ELSE replay_log(ex_i_event(b, evnts[i]), evnts, i + 1)

\* outer loop of Buffer::repeat: for _ in 0..insert_repeat
replay(b, evnts, times) ==
    IF times = 0 THEN b
    ELSE replay(replay_log(b, evnts, 1), evnts, times - 1)

\* the end of repeat that leaves insert_repeat as it was
repeat_done_keepRepeat(b, log) ==
    IF b.st # "ok" THEN b ELSE [b EXCEPT !.last_inserts = log]

\* Buffer::repeat, after the loops: insert_repeat = 0, last_inserts = log
repeat_done(b, log) ==
    IF b.st # "ok" THEN b ELSE [b EXCEPT !.insert_repeat = 0, !.last_inserts = log]

\* Buffer::repeat, with the log it replays (the drained events, or none)
repeat_log(b, log) ==
    repeat_done(replay([b EXCEPT !.last_inserts = <<>>], log, b.insert_repeat), log)

\* Buffer::repeat
repeat(b) ==
    IF b.st # "ok" THEN b
    ELSE repeat_log(b, IF \A i \in 1..Len(b.last_inserts) : IsRepeatable(b.last_inserts[i])
                       THEN b.last_inserts ELSE <<>>)

\* Buffer::handle_i_event
handle_i_event(b, e) ==
    IF b.st # "ok" THEN b
    ELSE IF e.k = "Noop" THEN Returns(b, Noop)
    ELSE ex_i_event([b EXCEPT !.last_inserts = Append(@, e)], e)

\* to_insert_n without the Open arm
to_insert_n_noOpen(e) ==
    IF e.k = "Md" /\ e.m \in {"Insert", "Append"} THEN e.n ELSE -1

\* Buffer::to_insert_n ; None is -1
to_insert_n(e) ==
    IF e.k = "Md" /\ e.m \in {"Insert", "Append", "Open"} THEN e.n ELSE -1

\* Inner::default(), left in self.inner by mem::replace in ex_n_insert: a
\* Normal buffer over a new empty Change
inner_default(b) ==
    [b EXCEPT !.nodes = <<ChangeStart(<<>>)>>, !.change = 1, !.mode = "normal"]

\* self.inner = inner at the end of ex_n_insert: the state nb that was moved
\* out of the buffer comes back, in mode m
inner_back(x, nb, m) ==
    IF x.st # "ok" THEN x
    ELSE Returns([x EXCEPT !.nodes = nb.nodes, !.change = nb.change, !.mode = m], Noop)

\* self.insert_repeat = n - 1
set_insert_repeat(b, n) == [b EXCEPT !.insert_repeat = n - 1]

\* Buffer::ex_n_insert.  mem::replace moves the buffer's state out of
\* self.inner and leaves Inner::default() there.  The motions and the
\* cmd_insert_char of the arms are given `self`, so they run on that default
\* state; the arm then builds the Insert state from nb, the state moved out.
ex_n_insert(b, e) ==
    IF b.st # "ok" THEN b
    ELSE IF b.mode = "normal"
    THEN CASE e.k = "Md" /\ e.m = "Insert" /\ e.n > 0 ->
                inner_back(IF e.dp = "TextCol"
                           THEN mto_line_home(set_insert_repeat(inner_default(b), e.n), "TextCol")
                           ELSE set_insert_repeat(inner_default(b), e.n),
                           b, "insert")
           [] e.k = "Md" /\ e.m = "Append" /\ e.n > 0 ->
                inner_back(mto_right(IF e.dp = "End"
                                     THEN mto_line_end(set_insert_repeat(inner_default(b), e.n),
                                                       1, "None")
                                     ELSE set_insert_repeat(inner_default(b), e.n),
                                     1, "Nobound"),
                           b, "insert")
           [] e.k = "Md" /\ e.m = "Open" /\ e.dp = "Left" /\ e.n > 0 ->
                inner_back(mto_left(cmd_insert_char(
                                        mto_line_home(set_insert_repeat(inner_default(b), e.n),
                                                      "None"), NL),
                                    1, "Nobound"),
                           b, "insert")
           [] e.k = "Md" /\ e.m = "Open" /\ e.dp = "Right" /\ e.n > 0 ->
                inner_back(cmd_insert_char(
                               mto_right(mto_line_end(set_insert_repeat(inner_default(b), e.n),
                                                      1, "None"),
                                         1, "Nobound"), NL),
                           b, "insert")
           [] OTHER -> inner_back(inner_default(b), b, "normal")
    ELSE Returns(b, e)

\* return self.handle_i_event(evnt) with the event ex_n_insert returned
handle_i_returned(b) == handle_i_event(b, b.ret)

\* Buffer::handle_n_event.  The Word and WWord arms call mto_words and
\* mto_wwords, whose loops are run step by step by the actions below: the
\* status "words" hands the call over to them.
handle_n_event(b, e) ==
    IF b.st # "ok" THEN b
    ELSE IF to_insert_n(e) \notin {0, -1}
    THEN handle_i_returned(ex_n_insert(b, e))
    ELSE CASE e.k = "Noop" -> Returns(b, Noop)
           [] e.k = "Mt" /\ e.m = "Left" -> Returns(mto_left(b, e.n, e.dp), Noop)
           [] e.k = "Mt" /\ e.m = "Right" -> Returns(mto_right(b, e.n, e.dp), Noop)
           [] e.k = "Mt" /\ e.m = "LineHome" -> Returns(mto_line_home(b, e.dp), Noop)
           [] e.k = "Mt" /\ e.m = "LineEnd" -> Returns(mto_line_end(b, e.n, e.dp), Noop)
           [] e.k = "Mt" /\ e.m = "Col" -> Returns(mto_column(b, e.n), Noop)
           [] e.k = "Mt" /\ e.m = "Row" -> Returns(mto_row(b, e.n, e.dp), Noop)
           [] e.k = "Mt" /\ e.m = "Percent" -> Returns(mto_percent(b, e.n), Noop)
           [] e.k = "Mt" /\ e.m = "Cursor" -> Returns(mto_cursor(b, e.n), Noop)
           [] e.k = "Mt" /\ e.m = "Up" -> Returns(mto_up(b, e.n, e.dp), Noop)
           [] e.k = "Mt" /\ e.m = "Down" -> Returns(mto_down(b, e.n, e.dp), Noop)
           [] e.k = "Mt" /\ e.m \in {"CharF", "CharT"} ->
                Returns(mto_char([b EXCEPT !.mto_find_char = e], e), Noop)
           [] e.k = "Mt" /\ e.m = "CharR" ->
                Returns(mto_char_r(b, dir_xor(b.mto_find_char, e.n, e.dp)), Noop)
           [] e.k = "Mt" /\ e.m \in {"Word", "WWord"} ->
                IF e.dp \in {"Left", "Right"} THEN [b EXCEPT !.st = "words"] ELSE Fatal(b)
           [] e.k = "Mt" /\ e.m = "Sentence" -> Returns(mto_sentence(b, e), Noop)
           [] e.k = "Mt" /\ e.m = "Para" -> Returns(mto_para(b, e), Noop)
           [] e.k = "Mt" /\ e.m = "Bracket" -> Returns(mto_bracket(b, e), Noop)
           [] e.k = "Mt" /\ e.m = "Pattern" /\ e.ch # "" ->
                Returns(mto_pattern_to([b EXCEPT !.mto_pattern = e], e), Noop)
           [] e.k = "Mt" /\ e.m = "PatternR" ->
                Returns(mto_pattern_r(b, dir_xor(b.mto_pattern, e.n, e.dp)), Noop)
           [] OTHER -> pass_through(b, e)

\* Buffer::on_event
on_event(b, e) ==
    IF b.mode = "insert" THEN handle_i_event(b, e) ELSE handle_n_event(b, e)

\* ------------------------------------------------------------ state machine
\* the buffer as the record the operations work on
B == [nodes |-> nodes, change |-> change, mode |-> mode, sticky_col |-> sticky_col,
      insert_repeat |-> insert_repeat, last_inserts |-> last_inserts,
      read_only |-> read_only, mto_find_char |-> mto_find_char,
      mto_pattern |-> mto_pattern,
      st |-> "ok", ret |-> Noop]

NoWords == [m |-> "", dp |-> "", pos |-> "", left |-> 0]
RetOf(r) == [st |-> IF r.st = "ok" THEN "Ok"
                    ELSE IF r.st \in {"Fatal", "BadPattern"} THEN r.st ELSE "none",
             ev |-> IF r.st = "ok" THEN r.ret ELSE Noop]
PcOf(r) == IF r.st = "panic" THEN "panicked" ELSE IF r.st = "words" THEN "words" ELSE "idle"

\* the buffer fields of the record r become the next state
Store(r) ==
    /\ nodes' = r.nodes
    /\ change' = r.change
    /\ mode' = r.mode
    /\ sticky_col' = r.sticky_col
    /\ insert_repeat' = r.insert_repeat
    /\ last_inserts' = r.last_inserts
    /\ read_only' = r.read_only
    /\ mto_find_char' = r.mto_find_char
    /\ mto_pattern' = r.mto_pattern
    /\ UNCHANGED <<numvars, valvars>>

\* ---------------------------------------------------------- Cursor, Event
\* Cursor { col, row }
Cursor(col, row) == [col |-> col, row |-> row]
\* usize::cmp, and usize::partial_cmp without its Some
usize_cmp(x, y) == IF x < y THEN "Less" ELSE IF x = y THEN "Equal" ELSE "Greater"
\* impl PartialEq for Cursor
eq(a, b) == a.row = b.row /\ a.col = b.col
\* impl PartialOrd for Cursor; the result is always Some, and is kept bare
partial_cmp(a, b) ==
    IF a.row = b.row THEN usize_cmp(a.col, b.col) ELSE usize_cmp(a.row, b.row)
\* impl Ord for Cursor
cmp(a, b) ==
    IF a.row = b.row THEN usize_cmp(a.row, b.row) ELSE usize_cmp(a.col, b.col)

\* Event::List(evnts)
List(evnts) == [k |-> "List", evnts |-> evnts]
\* Event::push, the value of *self after the call
push(self, e) ==
    IF e = Noop THEN self
    ELSE IF self = Noop THEN e
    ELSE IF self.k = "List" THEN List(Append(self.evnts, e))
    ELSE List(<<self, e>>)
\* Event::pop: the value returned and *self after the call; Vec::pop takes
\* the last element
pop(self) ==
    IF self = Noop THEN [ret |-> Noop, self |-> self]
    ELSE IF self.k = "List"
    THEN IF self.evnts # <<>>
         THEN [ret |-> self.evnts[Len(self.evnts)],
               self |-> List(SubSeq(self.evnts, 1, Len(self.evnts) - 1))]
         ELSE [ret |-> Noop, self |-> Noop]
    ELSE [ret |-> self, self |-> Noop]
\* Iterator::next for Event: Some(evnt) is evnt, None is the string "None";
\* Vec::remove(0) takes the first element
next(self) ==
    IF self = Noop THEN [ret |-> "None", self |-> self]
    ELSE IF self.k = "List"
    THEN IF Len(self.evnts) > 0
         THEN [ret |-> self.evnts[1], self |-> List(Tail(self.evnts))]
         ELSE [ret |-> "None", self |-> self]
    ELSE [ret |-> self, self |-> Noop]

\* Event::drain, the value of *self after the call
drain(self) == Noop
\* Extend::extend for Event, the value of *self after the call; the events
\* of the iterator are taken as they come, Noop included
extend(self, evnts) ==
    LET all == IF self = Noop THEN evnts
               ELSE IF self.k = "List" THEN self.evnts \o evnts
               ELSE <<self>> \o evnts
    IN  IF Len(all) > 0 THEN List(all) ELSE Noop
\* an event whose iteration in from_iter comes to an end: Noop yields
\* nothing, a List yields its events, every other event yields itself and is
\* given to Event::from_iter again, without end
RECURSIVE vanishes(_)
vanishes(e) ==
    \/ e = Noop
    \/ e.k = "List" /\ \A i \in 1..Len(e.evnts) : vanishes(e.evnts[i])
\* FromIterator::from_iter for Event: the call returns, with Noop, when every
\* event of the iterator vanishes; otherwise the recursion overflows the stack
from_iter(evnts) ==
    IF \A i \in 1..Len(evnts) : vanishes(evnts[i]) THEN "returned" ELSE "overflow"

\* the results of a comparison not made yet
NotCompared == [made |-> FALSE, eq |-> FALSE, partial_cmp |-> "none", cmp |-> "none"]
\* no Cursor compared, no Event accumulated
NoValues ==
    /\ this = Cursor(0, 0)
    /\ that = Cursor(0, 0)
    /\ ord = NotCompared
    /\ acc = Noop
    /\ calls = <<>>

\* the threads of the process
Threads == 1..MaxThreads
\* a thread that is not in from_reader
Outside == [pc |-> "idle", num |-> 0]
\* static ref BUFFER_NUM: Mutex<usize> = Mutex::new(0); holder is the thread
\* that has the MutexGuard, 0 when the Mutex is free
MutexNew == [value |-> 0, holder |-> 0]
\* the numbering once the one buffer of a run has been constructed
Numbered ==
    /\ BUFFER_NUM = [value |-> 1, holder |-> 0]
    /\ threads = [t \in Threads |-> Outside]
    /\ buffers = <<[num |-> 1, by |-> 1]>>

\* texts a buffer is constructed from (Buffer::from_reader)
InitTexts == { <<>>, <<" ", "a">> }

\* Buffer::from_reader: NormalBuffer::new(buf), Change::start
Init ==
    /\ \E t \in InitTexts : nodes = <<ChangeStart(t)>>
    /\ change = 1
    /\ mode = "normal"
    /\ sticky_col = "None"
    /\ insert_repeat = 0
    /\ last_inserts = <<>>
    /\ read_only = FALSE
    /\ mto_find_char = MtoNone
    /\ mto_pattern = MtoNone
    /\ pc = "idle"
    /\ evnt = Noop
    /\ ret = [st |-> "none", ev |-> Noop]
    /\ wctx = NoWords
    /\ loop_n = 0
    /\ NoValues
    /\ Numbered

ModalEvents ==
    {Md("Insert", n, dp) : n \in 0..MaxCount, dp \in {"None", "TextCol"}}
    \cup {Md("Append", n, dp) : n \in 0..MaxCount, dp \in {"Right", "End"}}
    \cup {Md("Open", n, dp) : n \in 0..MaxCount, dp \in {"Left", "Right"}}
MotionEvents ==
    {Mt("Left", 1, "LineBound"), Mt("Right", 1, "Nobound"),
     Mt("LineEnd", 1, "None"), Mt("Down", 1, "None")}
EditEvents == {Char("X"), Backspace, Delete, Enter, Tab}
NormalEvents == ModalEvents \cup MotionEvents \cup {Char("X"), Esc, FKey}
InsertEvents == EditEvents \cup {Esc, FKey, Noop, Mt("Left", 1, "LineBound"),
                                 Mt("LineEnd", 1, "None")}

\* the call of on_event on e has come to r: its result is stored
Called(r, e) ==
    /\ Store(r)
    /\ pc' = PcOf(r)
    /\ ret' = RetOf(r)
    /\ wctx' = IF r.st = "words"
               THEN [m |-> e.m, dp |-> e.dp, pos |-> e.pos, left |-> e.n]
               ELSE NoWords
    /\ evnt' = e
    /\ loop_n' = 0

\* one call of Buffer::on_event
OnEvent(e) ==
    /\ pc = "idle"
    /\ mode = "insert" /\ e.k \notin {"Esc", "Noop"} => Len(last_inserts) < MaxLog
    /\ mode = "insert" /\ IsRepeatable(e) => Len(nodes) <= MaxChanges
    /\ Called(on_event(B, e), e)

NormalEvent == \E e \in NormalEvents : mode = "normal" /\ OnEvent(e)
InsertEvent == \E e \in InsertEvents : mode = "insert" /\ OnEvent(e)

Next == NormalEvent \/ InsertEvent

Spec == Init /\ [][Next]_vars

\* ------------------------------------------- Buffer::from_reader, by thread
\* the calls of from_reader that have read their data and have not returned
InFlight == {t \in Threads : threads[t].pc \in {"lock", "load", "store", "make"}}

\* err_at!(FailBuffer, Rope::from_reader(data))? with data that cannot be
\* read: the call returns the error
RopeFails(t) ==
    /\ threads[t].pc = "idle"
    /\ threads' = [threads EXCEPT ![t].pc = "err"]
    /\ UNCHANGED <<BUFFER_NUM, buffers>>
    /\ UNCHANGED <<bufvars, valvars>>

\* Rope::from_reader(data) with data that can be read
RopeRead(t) ==
    /\ threads[t].pc = "idle"
    /\ Len(buffers) + Cardinality(InFlight) < MaxBuffers
    /\ threads' = [threads EXCEPT ![t].pc = "lock"]
    /\ UNCHANGED <<BUFFER_NUM, buffers>>
    /\ UNCHANGED <<bufvars, valvars>>

\* a Mutex that hands out its guard whoever holds it
lock_unguarded(m) == TRUE
\* Mutex::lock returns once no other thread holds the guard
lock(m) == m.holder = 0

\* let mut num = BUFFER_NUM.lock().unwrap()
Lock(t) ==
    /\ threads[t].pc = "lock"
    /\ lock(BUFFER_NUM)
    /\ BUFFER_NUM' = [BUFFER_NUM EXCEPT !.holder = t]
    /\ threads' = [threads EXCEPT ![t].pc = "load"]
    /\ UNCHANGED buffers
    /\ UNCHANGED <<bufvars, valvars>>

\* *num + 1, the read of the counter
Load(t) ==
    /\ threads[t].pc = "load"
    /\ threads' = [threads EXCEPT ![t] = [pc |-> "store", num |-> BUFFER_NUM.value + 1]]
    /\ UNCHANGED <<BUFFER_NUM, buffers>>
    /\ UNCHANGED <<bufvars, valvars>>

\* *num = .., the write of the counter
StoreNum(t) ==
    /\ threads[t].pc = "store"
    /\ BUFFER_NUM' = [BUFFER_NUM EXCEPT !.value = threads[t].num]
    /\ threads' = [threads EXCEPT ![t].pc = "make"]
    /\ UNCHANGED buffers
    /\ UNCHANGED <<bufvars, valvars>>

\* let b = Buffer { .., num: *num, .. }
MakeBuffer(t) ==
    /\ threads[t].pc = "make"
    /\ buffers' = Append(buffers, [num |-> BUFFER_NUM.value, by |-> t])
    /\ threads' = [threads EXCEPT ![t].pc = "ok"]
    /\ UNCHANGED BUFFER_NUM
    /\ UNCHANGED <<bufvars, valvars>>

\* Buffer::default(): num is Default::default(), BUFFER_NUM is not taken
DefaultBuffer(t) ==
    /\ threads[t].pc = "idle"
    /\ Len(buffers) + Cardinality(InFlight) < MaxBuffers
    /\ buffers' = Append(buffers, [num |-> 0, by |-> t])
    /\ UNCHANGED <<BUFFER_NUM, threads>>
    /\ UNCHANGED <<bufvars, valvars>>

\* Ok(b): the guard goes out of scope and the call returns
ReturnOk(t) ==
    /\ threads[t].pc = "ok"
    /\ BUFFER_NUM' = [BUFFER_NUM EXCEPT !.holder = 0]
    /\ threads' = [threads EXCEPT ![t] = Outside]
    /\ UNCHANGED buffers
    /\ UNCHANGED <<bufvars, valvars>>

\* the caller has the FailBuffer error
ReturnErr(t) ==
    /\ threads[t].pc = "err"
    /\ threads' = [threads EXCEPT ![t] = Outside]
    /\ UNCHANGED <<BUFFER_NUM, buffers>>
    /\ UNCHANGED <<bufvars, valvars>>

\* the process before any buffer is constructed
InitNum ==
    /\ nodes = <<ChangeStart(<<>>)>>
    /\ change = 1
    /\ mode = "normal"
    /\ sticky_col = "None"
    /\ insert_repeat = 0
    /\ last_inserts = <<>>
    /\ read_only = FALSE
    /\ mto_find_char = MtoNone
    /\ mto_pattern = MtoNone
    /\ pc = "idle"
    /\ evnt = Noop
    /\ ret = [st |-> "none", ev |-> Noop]
    /\ wctx = NoWords
    /\ BUFFER_NUM = MutexNew
    /\ threads = [t \in Threads |-> Outside]
    /\ buffers = <<>>
    /\ loop_n = 0
    /\ NoValues

\* one step of one thread in Buffer::from_reader
NextNum ==
    \E t \in Threads :
        \/ RopeFails(t) \/ RopeRead(t) \/ Lock(t) \/ Load(t) \/ StoreNum(t)
        \/ MakeBuffer(t) \/ ReturnOk(t) \/ ReturnErr(t) \/ DefaultBuffer(t)

SpecNum == InitNum /\ [][NextNum]_vars

\* ------------------------------------------- mto_words / mto_wwords, by step
\* Some(ch) of Change::iter(dp).next(): the character next to the cursor in
\* direction dp; "" is None.  Every call of iter starts at the cursor again.
iter_next(r, c, dp) ==
    IF dp = "Right" THEN (IF c < Len(r) THEN r[c + 1] ELSE "")
    ELSE (IF c > 0 THEN r[c] ELSE "")

\* the test of the loop of skip_alphanumeric (Word) / skip_non_whitespace (WWord)
skip_test(m, ch) ==
    ch # "" /\ (IF m = "Word" THEN is_alphanumeric(ch) ELSE is_whitespace(ch))

\* whether the arm taken after skip_whitespace returned n calls the skip loop
calls_skip(m, dp, pos, n) ==
    IF m = "WWord" /\ dp = "Left"
    THEN pos = "Start" \/ (pos = "End" /\ n = 0)
    ELSE pos = "End" \/ (pos = "Start" /\ n = 0)

\* the call that follows the skip loop in the arm
after_skip(b, m, dp, pos) ==
    IF m = "WWord" /\ dp = "Left"
    THEN (IF pos = "Start" THEN mto_right(b, 1, "Nobound") ELSE skip_whitespace(b, "Left"))
    ELSE IF pos = "End"
         THEN (IF dp = "Left" THEN mto_right(b, 1, "Nobound") ELSE mto_left(b, 1, "Nobound"))
         ELSE skip_whitespace(b, dp)

\* for _ in 0..n is exhausted: Ok(Event::Noop)
WordsReturn ==
    /\ pc = "words" /\ wctx.left = 0
    /\ pc' = "idle"
    /\ ret' = [st |-> "Ok", ev |-> Noop]
    /\ wctx' = NoWords
    /\ UNCHANGED <<nodes, change, mode, sticky_col, insert_repeat, last_inserts,
                   read_only, mto_find_char, mto_pattern, evnt, loop_n>>
    /\ UNCHANGED <<numvars, valvars>>

\* the for loop after skip_whitespace returned n and left the buffer r
WordsSkipped(r, n) ==
    /\ Store(r)
    /\ IF r.st # "ok"
       THEN pc' = PcOf(r) /\ wctx' = NoWords
       ELSE IF calls_skip(wctx.m, wctx.dp, wctx.pos, n)
       THEN pc' = "skip" /\ wctx' = wctx
       ELSE pc' = "words" /\ wctx' = [wctx EXCEPT !.left = @ - 1]

\* match pos { .. _ => unreachable!() }
match_pos(b, pos) == IF b.st = "ok" /\ pos \notin {"Start", "End"} THEN Panic(b) ELSE b

\* one iteration of the for loop, up to the call of the skip loop
WordsIter ==
    /\ pc = "words" /\ wctx.left > 0
    /\ WordsSkipped(match_pos(skip_whitespace(B, wctx.dp), wctx.pos),
                    ws_run(Rope(B), to_char_cursor(B), wctx.dp))
    /\ loop_n' = 0
    /\ UNCHANGED <<evnt, ret>>

\* an iteration of the loop of Change::skip_alphanumeric / skip_non_whitespace
\* whose test holds: n += 1
SkipIter ==
    /\ pc = "skip"
    /\ skip_test(wctx.m, iter_next(Rope(B), to_char_cursor(B), wctx.dp))
    /\ loop_n' = (loop_n + 1) % SpinWrap
    /\ UNCHANGED <<nodes, change, mode, sticky_col, insert_repeat, last_inserts,
                   read_only, mto_find_char, mto_pattern, pc, evnt, ret, wctx>>
    /\ UNCHANGED <<numvars, valvars>>

\* n += 1 at the largest value of the counter: a build with overflow checks
\* panics where SkipIter wraps
SkipOverflow ==
    /\ pc = "skip"
    /\ skip_test(wctx.m, iter_next(Rope(B), to_char_cursor(B), wctx.dp))
    /\ loop_n + 1 = SpinWrap
    /\ pc' = "panicked"
    /\ UNCHANGED <<nodes, change, mode, sticky_col, insert_repeat, last_inserts,
                   read_only, mto_find_char, mto_pattern, evnt, ret, wctx, loop_n>>
    /\ UNCHANGED <<numvars, valvars>>

\* the arm after the skip loop has come to r
SkipDone(r) ==
    /\ Store(r)
    /\ pc' = IF r.st = "ok" THEN "words" ELSE PcOf(r)
    /\ ret' = IF r.st = "Fatal" THEN RetOf(r) ELSE ret
    /\ wctx' = IF r.st = "ok" THEN [wctx EXCEPT !.left = @ - 1] ELSE NoWords

\* self.cursor = if dp == Right { cursor + n } else { cursor - n }
skip_cursor(b, dp, n) ==
    IF dp = "Right" THEN set_cursor(b, to_char_cursor(b) + n)
    ELSE IF n > to_char_cursor(b) THEN Panic(b)
    ELSE set_cursor(b, to_char_cursor(b) - n)

\* the loop breaks with n: the cursor moves by n, the arm goes on and the
\* for loop takes its next turn
SkipBreak ==
    /\ pc = "skip"
    /\ ~skip_test(wctx.m, iter_next(Rope(B), to_char_cursor(B), wctx.dp))
    /\ SkipDone(after_skip(skip_cursor(B, wctx.dp, loop_n), wctx.m, wctx.dp, wctx.pos))
    /\ loop_n' = 0
    /\ UNCHANGED evnt

ABC_DEF_GHI == <<"a", "b", "c", " ", "d", "e", "f", NL, "g", "h", "i">>
WordTexts ==
    { ABC_DEF_GHI, <<"a">>, <<".", " ", "a">>, <<"a", "b", " ", ".">>, <<".", ".">>,
      <<" ", " ">>, <<>> }
WordEvents == {MtW(m, n, dp, pos) : m \in {"Word", "WWord"}, n \in 0..MaxCount,
                                    dp \in {"Left", "Right"}, pos \in {"Start", "End"}}

\* a buffer constructed from a text, the cursor placed by Buffer::set_cursor
InitWords ==
    /\ \E t \in WordTexts : \E c \in 0..Len(t) :
          nodes = <<[ChangeStart(t) EXCEPT !.cursor = c]>>
    /\ change = 1
    /\ mode = "normal"
    /\ sticky_col = "None"
    /\ insert_repeat = 0
    /\ last_inserts = <<>>
    /\ read_only = FALSE
    /\ mto_find_char = MtoNone
    /\ mto_pattern = MtoNone
    /\ pc = "idle"
    /\ evnt = Noop
    /\ ret = [st |-> "none", ev |-> Noop]
    /\ wctx = NoWords
    /\ loop_n = 0
    /\ NoValues
    /\ Numbered

WordEvent == \E e \in WordEvents : OnEvent(e)
WordStep == WordsReturn \/ WordsIter \/ SkipIter \/ SkipBreak

NextWords == WordEvent \/ WordStep \/ SkipOverflow

\* a call that has started keeps running: its next step is eventually taken
SpecWords == InitWords /\ [][NextWords]_vars /\ WF_vars(WordStep)

\* ------------------------------------- the public calls next to on_event
\* a call that takes no event, recorded in evnt by its name
ApiCall(name) == Ev(name, "", 0, "", "", "")

\* the call `name` has come to r
ApiCalled(r, name) ==
    /\ Store(r)
    /\ pc' = "idle"
    /\ ret' = [st |-> "none", ev |-> Noop]
    /\ wctx' = NoWords
    /\ evnt' = ApiCall(name)
    /\ loop_n' = 0

\* Buffer::mode_normal()
ModeNormal == pc = "idle" /\ ApiCalled(mode_normal(B), "mode_normal")
\* Buffer::mode_insert()
ModeInsert == pc = "idle" /\ ApiCalled(mode_insert(B), "mode_insert")
\* Buffer::set_read_only(flag)
set_read_only(b, flag) == [b EXCEPT !.read_only = flag]
SetReadOnly ==
    \E flag \in BOOLEAN :
       pc = "idle" /\ flag # read_only /\ ApiCalled(set_read_only(B, flag), "set_read_only")

ModesNormalEvents ==
    {FKey, Op, Char("X"), Esc, MtPattern(1, "", "Right"), Md("Insert", 1, "None"),
     Md("Insert", 0, "None"), Md("Open", 1, "Right"), Mt("Right", 1, "Nobound")}
ModesInsertEvents == {FKey, Op, MtPattern(1, "", "Right"), Char("X"), Esc}

ModesNormalEvent == \E e \in ModesNormalEvents : mode = "normal" /\ OnEvent(e)
ModesInsertEvent == \E e \in ModesInsertEvents : mode = "insert" /\ OnEvent(e)

NextModes ==
    ModeNormal \/ ModeInsert \/ SetReadOnly \/ ModesNormalEvent \/ ModesInsertEvent

\* the buffer under on_event and the calls that switch its mode or mark it
\* read-only
SpecModes == Init /\ [][NextModes]_vars

\* ------------------------------------------------ motions in Normal mode
FOO == <<"f", "o", "o", " ", "b", "a", "r", " ", "f", "o", "o">>
NESTED == <<"(", "a", "(", "b", ")", "c", ")">>
MotionTexts ==
    { FOO, NESTED, <<"a", "b", "c">>, <<"a", NL, "b">>, <<"(", "a", ")">>, <<"a", NL>> }

FindEvents ==
    {MtChar("CharF", n, "a", dp) : n \in 1..MaxCount, dp \in {"Left", "Right"}}
    \cup {MtChar("CharT", 2, "c", "Right"), MtChar("CharF", 2, "z", "Right"),
          Mt("CharR", 2, "Left"), Mt("CharR", 2, "Right")}
BracketEvents ==
    {MtBracket(0, "(", ")", "Left"), MtBracket(0, ")", "(", "Right")}
    \cup {MtBracket(n, "(", ")", dp) : n \in 1..MaxCount, dp \in {"Left", "Right"}}
PatternEvents ==
    {MtPattern(n, "foo", "Right") : n \in 1..(MaxCount + 1)}
    \cup {MtPattern(1, "foo", "Left"), MtPattern(1, "z", "Right"),
          MtPattern(1, "(", "Right"), Mt("PatternR", 1, "Right")}
QualifierEvents ==
    {Mt("LineHome", 1, "Left"), Mt("LineHome", 1, "None"), Mt("LineEnd", 1, "Left"),
     Mt("Up", 1, "StickyCol"), Mt("Down", 1, "Left"), Mt("Down", 1, "None"),
     Mt("Left", 1, "Start"), Mt("Right", 1, "LineBound")}
LineEvents ==
    {Mt(m, n, "LineBound") : m \in {"Left", "Right"}, n \in 1..MaxCount}
    \cup {Mt("LineEnd", n, "None") : n \in 1..MaxCount}
MotionSet ==
    FindEvents \cup BracketEvents \cup PatternEvents \cup QualifierEvents \cup LineEvents

\* a buffer constructed from a text, the cursor placed by Buffer::set_cursor
InitMotion ==
    /\ \E t \in MotionTexts : \E c \in 0..Len(t) :
          nodes = <<[ChangeStart(t) EXCEPT !.cursor = c]>>
    /\ change = 1
    /\ mode = "normal"
    /\ sticky_col = "None"
    /\ insert_repeat = 0
    /\ last_inserts = <<>>
    /\ read_only = FALSE
    /\ mto_find_char = MtoNone
    /\ mto_pattern = MtoNone
    /\ pc = "idle"
    /\ evnt = Noop
    /\ ret = [st |-> "none", ev |-> Noop]
    /\ wctx = NoWords
    /\ loop_n = 0
    /\ NoValues
    /\ Numbered

MotionEvent == \E e \in MotionSet : OnEvent(e)
NextMotion == MotionEvent
SpecMotion == InitMotion /\ [][NextMotion]_vars

\* ------------------------------------- line-wise and column-wise motions
AB_CD == <<"a", "b", NL, "c", "d">>
\* two sentences, and two paragraphs that a blank line parts
SENTENCES == <<"a", ".", " ", "b", NL, NL, "c">>
LineTexts ==
    { AB_CD, <<" ", "a", NL, NL, "b">>, <<"a", "b", "c", NL, "d", NL>>, SENTENCES }
\* the percentages given to Percent
Percents == {0, 50, 99, 100}
LinesSet ==
    {Mt(m, n, "None") : m \in {"Up", "Down"}, n \in 1..MaxCount}
    \cup {Mt(m, 1, "TextCol") : m \in {"Up", "Down"}}
    \cup {Mt("LineHome", 1, dp) : dp \in {"None", "TextCol", "StickyCol"}}
    \cup {Mt("LineEnd", 1, dp) : dp \in {"None", "TextCol", "StickyCol"}}
    \cup {Mt("Left", 1, "LineBound"), Mt("Right", 1, "LineBound")}
    \cup {Mt("Col", n, "") : n \in 0..MaxCount}
    \cup {Mt("Row", n, dp) : n \in 0..(MaxCount + 1), dp \in {"None", "TextCol"}}
    \cup {Mt("Percent", n, "") : n \in Percents}
    \cup {Mt("Cursor", n, "") : n \in 0..MaxCount}
    \cup {MtChar("CharF", 2, "a", "Right"), Mt("CharR", 2, "Left")}
    \cup {Mt("Sentence", n, dp) : n \in 1..MaxCount, dp \in {"Left", "Right"}}
    \cup {Mt("Para", n, dp) : n \in 0..1, dp \in {"Left", "Right"}}
    \cup {Mt("Sentence", 1, "None"), Mt("Para", 1, "None")}

\* a buffer constructed from a text, the cursor placed by Buffer::set_cursor
InitLines ==
    /\ \E t \in LineTexts : \E c \in 0..Len(t) :
          nodes = <<[ChangeStart(t) EXCEPT !.cursor = c]>>
    /\ change = 1
    /\ mode = "normal"
    /\ sticky_col = "None"
    /\ insert_repeat = 0
    /\ last_inserts = <<>>
    /\ read_only = FALSE
    /\ mto_find_char = MtoNone
    /\ mto_pattern = MtoNone
    /\ pc = "idle"
    /\ evnt = Noop
    /\ ret = [st |-> "none", ev |-> Noop]
    /\ wctx = NoWords
    /\ BUFFER_NUM = [value |-> 1, holder |-> 0]
    /\ threads = [t \in Threads |-> Outside]
    /\ buffers = <<[num |-> 1, by |-> 1]>>
    /\ loop_n = 0
    /\ NoValues

LinesEvent == \E e \in LinesSet : OnEvent(e)
NextLines == LinesEvent
SpecLines == InitLines /\ [][NextLines]_vars

\* ------------------------------------------------- comparison of Cursors
\* the Cursor values compared
Cursors == {Cursor(c, r) : c \in 0..MaxCoord, r \in 0..MaxCoord}

\* two Cursor values, not yet compared; no call runs on the buffer
InitCursor ==
    /\ this \in Cursors
    /\ that \in Cursors
    /\ ord = NotCompared
    /\ acc = Noop
    /\ calls = <<>>
    /\ nodes = <<ChangeStart(<<>>)>>
    /\ change = 1
    /\ mode = "normal"
    /\ sticky_col = "None"
    /\ insert_repeat = 0
    /\ last_inserts = <<>>
    /\ read_only = FALSE
    /\ mto_find_char = MtoNone
    /\ mto_pattern = MtoNone
    /\ pc = "idle"
    /\ evnt = Noop
    /\ ret = [st |-> "none", ev |-> Noop]
    /\ wctx = NoWords
    /\ loop_n = 0
    /\ Numbered

\* this == that, this.partial_cmp(&that), this.cmp(&that)
Compare ==
    /\ ~ord.made
    /\ ord' = [made |-> TRUE, eq |-> eq(this, that),
               partial_cmp |-> partial_cmp(this, that), cmp |-> cmp(this, that)]
    /\ UNCHANGED <<this, that, acc, calls, bufvars, numvars>>

NextCursor == Compare
SpecCursor == InitCursor /\ [][NextCursor]_vars

\* --------------------------------------------------- Event as accumulator
\* the events pushed
Pushed == {Noop, Esc, Char("a"), Mt("Left", 1, "None")}

\* an Event that is Noop, with no call made on it yet
InitEvents ==
    /\ acc = Noop
    /\ calls = <<>>
    /\ this = Cursor(0, 0)
    /\ that = Cursor(0, 0)
    /\ ord = NotCompared
    /\ nodes = <<ChangeStart(<<>>)>>
    /\ change = 1
    /\ mode = "normal"
    /\ sticky_col = "None"
    /\ insert_repeat = 0
    /\ last_inserts = <<>>
    /\ read_only = FALSE
    /\ mto_find_char = MtoNone
    /\ mto_pattern = MtoNone
    /\ pc = "idle"
    /\ evnt = Noop
    /\ ret = [st |-> "none", ev |-> Noop]
    /\ wctx = NoWords
    /\ loop_n = 0
    /\ Numbered

\* the events given to extend at once, and those given to from_iter
Extended == {<<Noop>>, <<Esc, Char("a")>>}
Collected == {<<Noop, List(<<>>)>>, <<Esc>>}
\* the process runs, and the calls recorded are within the bound
Running ==
    /\ Len(calls) < MaxCalls
    /\ calls # <<>> => calls[Len(calls)].op # "overflow"

\* acc.push(e)
Push(e) ==
    /\ Running
    /\ acc' = push(acc, e)
    /\ calls' = Append(calls, [op |-> "push", ev |-> e])
    /\ UNCHANGED <<this, that, ord, bufvars, numvars>>

\* acc.pop()
Pop ==
    /\ Running
    /\ acc' = pop(acc).self
    /\ calls' = Append(calls, [op |-> "pop", ev |-> pop(acc).ret])
    /\ UNCHANGED <<this, that, ord, bufvars, numvars>>

\* acc.next()
IterNext ==
    /\ Running
    /\ acc' = next(acc).self
    /\ calls' = Append(calls, [op |-> "next", ev |-> next(acc).ret])
    /\ UNCHANGED <<this, that, ord, bufvars, numvars>>

\* acc.drain()
Drain ==
    /\ Running
    /\ acc' = drain(acc)
    /\ calls' = Append(calls, [op |-> "drain", ev |-> Noop])
    /\ UNCHANGED <<this, that, ord, bufvars, numvars>>

\* acc.extend(es)
Extend(es) ==
    /\ Running
    /\ acc' = extend(acc, es)
    /\ calls' = Append(calls, [op |-> "extend", ev |-> List(es)])
    /\ UNCHANGED <<this, that, ord, bufvars, numvars>>

\* Event::from_iter(es), next to the accumulator; a stack overflow ends the
\* process
FromIter(es) ==
    /\ Running
    /\ calls' = Append(calls, [op |-> from_iter(es), ev |-> Noop])
    /\ UNCHANGED <<acc, this, that, ord, bufvars, numvars>>

NextEvents ==
    \/ \E e \in Pushed : Push(e)
    \/ Pop
    \/ IterNext
    \/ Drain
    \/ \E es \in Extended : Extend(es)
    \/ \E es \in Collected : FromIter(es)
SpecEvents == InitEvents /\ [][NextEvents]_vars

\* ------------------------------------------------- insert and remove_at
EditTexts == { <<>>, <<"a">>, <<"a", "b">>, <<"a", NL>> }
\* the strings given to cmd_insert, by name; chars gives their characters
InsertTexts == {"", "X", "XY"}

\* a call with arguments, recorded in evnt: n is the offset, ch the string
ApiCallAt(name, char_idx, text) == Ev(name, "", char_idx, "", "", text)

\* the call `name` with its arguments has come to r
ApiCalledAt(r, name, char_idx, text) ==
    /\ Store(r)
    /\ pc' = PcOf(r)
    /\ ret' = [st |-> "none", ev |-> Noop]
    /\ wctx' = NoWords
    /\ evnt' = ApiCallAt(name, char_idx, text)
    /\ loop_n' = 0

\* Buffer::cmd_insert(char_idx, text)
CmdInsert ==
    \E t \in InsertTexts : \E c \in 0..len_chars(Rope(B)) :
       /\ pc = "idle" /\ Len(nodes) <= MaxChanges
       /\ ApiCalledAt(cmd_insert(B, c, chars(t)), "cmd_insert", c, t)

\* Buffer::cmd_remove_at(Included(c), Excluded(c + len)) of the span that the
\* last call, a cmd_insert, has inserted
CmdRemoveInserted ==
    /\ pc = "idle" /\ evnt.k = "cmd_insert"
    /\ ApiCalledAt(cmd_remove_at_excluded(B, evnt.n, evnt.n + Len(chars(evnt.ch))),
                   "cmd_remove_at", evnt.n, evnt.ch)

EditEvent == \E e \in {Char("X"), Backspace} : mode = "insert" /\ OnEvent(e)

\* a buffer constructed from a text, the cursor placed by Buffer::set_cursor
InitEdit ==
    /\ \E t \in EditTexts : \E c \in 0..Len(t) :
          nodes = <<[ChangeStart(t) EXCEPT !.cursor = c]>>
    /\ change = 1
    /\ mode = "normal"
    /\ sticky_col = "None"
    /\ insert_repeat = 0
    /\ last_inserts = <<>>
    /\ read_only = FALSE
    /\ mto_find_char = MtoNone
    /\ mto_pattern = MtoNone
    /\ pc = "idle"
    /\ evnt = Noop
    /\ ret = [st |-> "none", ev |-> Noop]
    /\ wctx = NoWords
    /\ loop_n = 0
    /\ NoValues
    /\ Numbered

NextEdit == CmdInsert \/ CmdRemoveInserted \/ ModeInsert \/ EditEvent
SpecEdit == InitEdit /\ [][NextEdit]_vars

\* ------------------------------------------------------------------ claims
\* a step that is one returned call of on_event, made in Insert mode
InsertCall == pc = "idle" /\ mode = "insert" /\ pc' = "idle" /\ ret'.st = "Ok"
\* a step that is one returned call of on_event, made in Normal mode
NormalCall == pc = "idle" /\ mode = "normal" /\ pc' = "idle" /\ ret'.st = "Ok"
\* the step handles Esc in Insert mode
EscCall == InsertCall /\ evnt' = Esc /\ mode' = "normal"
LogRepeatable == \A i \in 1..Len(last_inserts) : IsRepeatable(last_inserts[i])
\* the text the session's log gives when it is applied insert_repeat more times
Replayed == Rope(replay(B, last_inserts, insert_repeat))

\* C1: a session entered with count k in which only Char, Backspace, Delete,
\* Enter and Tab were typed has its edits applied k times in total once Esc
\* is handled: the log is replayed insert_repeat = k-1 more times.
C1_EscAppliesSessionKTimes ==
    [][EscCall /\ LogRepeatable /\ last_inserts # <<>>
         => nodes'[change'].rope = Replayed]_vars

\* C2: between two calls of on_event the cursor of the head lies within the
\* head's text: 0 <= cursor <= length.
C2_CursorWithinText ==
    pc = "idle" => (to_char_cursor(B) >= 0 /\ to_char_cursor(B) <= len_chars(Rope(B)))

\* C3: every call of on_event runs to completion: a call that has started
\* (Word and WWord motions included) comes to its end after finitely many
\* steps.  A call that a panic ends is not counted against the claim here, so
\* that only a call that runs for ever violates the formula.
C3_OnEventReturns == (pc # "idle") ~> (pc = "idle" \/ pc = "panicked")

\* C4: is_modified() is false after construction, true once a mutating
\* command has been executed in Insert mode, true ever after, and always
\* equal to "the head's owned children are not empty".
C4_IsModified ==
    /\ ~is_modified(B)
    /\ [](is_modified(B) <=> to_change(B).children # <<>>)
    /\ [][/\ is_modified(B) => is_modified(B)'
          /\ (pc = "idle" /\ mode = "insert" /\ IsRepeatable(evnt') /\ vars' # vars)
                => is_modified(B)']_vars
C4_Witness ==
    /\ mode = "normal" /\ Len(nodes) = 3 /\ is_modified(B)
    /\ evnt = Mt("Right", 1, "Nobound")

\* C5: the node the buffer refers to as head has no parent link, and every
\* other node of the history has one.
C5_OnlyHeadHasNoParent ==
    \A i \in 1..Len(nodes) : (nodes[i].parent = 0) <=> (i = change)
C5_Witness == Len(nodes) = 3 /\ change = 3 /\ nodes[1].parent = 2

\* the text with ch inserted at offset c
WithChar(t, c, ch) == [i \in 1..(Len(t) + 1) |->
                          IF i <= c THEN t[i] ELSE IF i = c + 1 THEN ch ELSE t[i - 1]]
InsertedChar(e) == IF e.k = "Char" THEN e.ch ELSE IF e.k = "Enter" THEN NL ELSE TAB

\* C6: a mutating command first clones and links: the new head N has the old
\* head H as its only owned child, H's parent link refers to N, H keeps its
\* text and cursor, and the edit is made on N, which started from H's text
\* and cursor (a character typed at H's cursor; a removal leaves N's cursor
\* at H's cursor).
C6_CloneAndLink ==
    [][(pc = "idle" /\ mode = "insert" /\ IsRepeatable(evnt') /\ vars' # vars) =>
         /\ Len(nodes') = Len(nodes) + 1
         /\ change' = Len(nodes')
         /\ nodes'[change'].children = <<change>>
         /\ nodes'[change'].parent = 0
         /\ nodes'[change].parent = change'
         /\ nodes'[change].rope = nodes[change].rope
         /\ nodes'[change].cursor = nodes[change].cursor
         /\ nodes'[change].children = nodes[change].children
         /\ (pc' = "idle" /\ evnt'.k \in {"Char", "Enter", "Tab"}) =>
               /\ nodes'[change'].rope =
                     WithChar(nodes[change].rope, nodes[change].cursor, InsertedChar(evnt'))
               /\ nodes'[change'].cursor = nodes[change].cursor + 1
         /\ (pc' = "idle" /\ evnt'.k \in {"Backspace", "Delete"}) =>
               /\ nodes'[change'].cursor = nodes[change].cursor
               /\ Len(nodes'[change'].rope) \in
                     {Len(nodes[change].rope), Len(nodes[change].rope) - 1}]_vars
C6_Witness ==
    /\ Len(nodes) = 3 /\ evnt = Char("X") /\ mode = "insert" /\ pc = "idle"
    /\ nodes[3].children = <<2>> /\ nodes[2].parent = 3
    /\ Len(nodes[3].rope) = Len(nodes[2].rope) + 1

\* C7: a node that is no longer the head never changes: its text and its
\* cursor stay what they were when it stopped being the head, through every
\* later command and motion.
C7_SupersededNodesFrozen ==
    [][\A i \in 1..Len(nodes) :
          (i # change \/ change' # change) =>
             /\ i <= Len(nodes')
             /\ nodes'[i].rope = nodes[i].rope
             /\ nodes'[i].cursor = nodes[i].cursor]_vars
C7_Witness ==
    /\ Len(nodes) = 3 /\ pc = "idle"
    /\ nodes[3].rope # nodes[2].rope /\ nodes[2].rope # nodes[1].rope
    /\ nodes[3].cursor # nodes[2].cursor
    /\ evnt.k = "Mt"

IsModalEntry(e) ==
    /\ e.k = "Md"
    /\ \/ e.m \in {"Insert", "Append"}
       \/ e.m = "Open" /\ e.dp \in {"Left", "Right"}

\* C8: in Normal mode Insert(n, _), Append(n, _) and Open(n, Left|Right) with
\* n >= 1 set insert_repeat to n-1, switch to Insert mode, record nothing in
\* the insert log and return Noop; with n = 0 the mode stays Normal.
C8_ModalEntry ==
    [][(pc = "idle" /\ mode = "normal" /\ IsModalEntry(evnt')) =>
         IF evnt'.n >= 1
         THEN /\ insert_repeat' = evnt'.n - 1
              /\ mode' = "insert"
              /\ last_inserts' = last_inserts
              /\ ret' = [st |-> "Ok", ev |-> Noop]
              /\ pc' = "idle"
         ELSE mode' = "normal"]_vars
C8_Witness ==
    /\ mode = "insert" /\ evnt = Md("Open", 2, "Right") /\ insert_repeat = 1
    /\ last_inserts = <<>> /\ ret.ev = Noop

\* offset just past the last non-newline character of the cursor's line
LineEndOffset(b) ==
    to_line_home(b) + Len(trim_newline(line(Rope(b), char_to_line(Rope(b), to_char_cursor(b)))))
\* offset of the first non-blank of the cursor's line
TextColOffset(b) ==
    LET l == trim_newline(line(Rope(b), char_to_line(Rope(b), to_char_cursor(b))))
        blanks == {k \in 0..Len(l) : \A i \in 1..k : is_whitespace(l[i])}
    IN  to_line_home(b) + Min(CHOOSE k \in blanks : \A j \in blanks : j <= k,
                              saturating_sub(Len(l), 1))

\* C9: the positioning implied by a modal entry is made on the buffer being
\* edited: after Append(n, End) the cursor is just past the last non-newline
\* character of its line, after Insert(n, TextCol) it is on the first
\* non-blank of the line, after Open(n, _) the text has one more (empty) line.
C9_ModalEntryPositions ==
    [][(NormalCall /\ CursorInRope(B) /\ IsModalEntry(evnt') /\ evnt'.n >= 1) =>
         /\ (evnt'.m = "Append" /\ evnt'.dp = "End") =>
               nodes'[change'].cursor = LineEndOffset(B)
         /\ (evnt'.m = "Insert" /\ evnt'.dp = "TextCol") =>
               nodes'[change'].cursor = TextColOffset(B)
         /\ evnt'.m = "Open" =>
               len_lines(nodes'[change'].rope) = len_lines(Rope(B)) + 1]_vars

\* C10: Esc replays nothing when the log of the session holds an event other
\* than Char, Backspace, Delete, Enter, Tab (the text stays as it was before
\* Esc); when the log holds only those events, the replay is made.
C10_ReplayOnlyPureSessions ==
    [][EscCall =>
         IF LogRepeatable
         THEN nodes'[change'].rope = Replayed /\ Len(nodes') = Len(replay(B, last_inserts, insert_repeat).nodes)
         ELSE nodes'[change'].rope = Rope(B)]_vars

\* C11: once Esc has been handled in Insert mode, whatever the session held,
\* the buffer is in Normal mode, insert_repeat is 0 and the insert log is
\* empty.
C11_EscResetsSession ==
    [][(pc = "idle" /\ mode = "insert" /\ evnt' = Esc /\ pc' = "idle") =>
         /\ ret' = [st |-> "Ok", ev |-> Noop]
         /\ mode' = "normal"
         /\ insert_repeat' = 0
         /\ last_inserts' = <<>>]_vars
C11_Witness ==
    /\ pc = "idle" /\ evnt = Esc /\ ret = [st |-> "Ok", ev |-> Noop]
    /\ mode = "normal" /\ insert_repeat = 0 /\ last_inserts = <<>>
    /\ Len(nodes) = 3

\* the events the handler of mode md has no arm for
Unrecognized(md, e) ==
    IF md = "insert"
    THEN \/ e.k \in {"FKey", "Op", "Md"}
         \/ e.k = "Mt" /\ e.m \notin {"Left", "Right", "Up", "Down", "LineHome", "LineEnd"}
    ELSE \/ e.k \in {"FKey", "Op", "Char", "Esc", "Backspace", "Delete", "Enter", "Tab"}
         \/ e.k = "Mt" /\ e.m = "Pattern" /\ e.ch = ""

\* C12: an event the handler of the current mode does not recognize is
\* returned as it was given, with Ok, and the text, the cursor, the mode and
\* the history are what they were before the call.
C12_UnrecognizedPassThrough ==
    [][(pc = "idle" /\ Unrecognized(mode, evnt')) =>
         /\ pc' = "idle"
         /\ ret' = [st |-> "Ok", ev |-> evnt']
         /\ nodes' = nodes
         /\ change' = change
         /\ mode' = mode]_vars
C12_Witness ==
    /\ pc = "idle" /\ mode = "insert" /\ evnt = Op /\ ret = [st |-> "Ok", ev |-> Op]
    /\ Len(nodes) = 2 /\ last_inserts = <<Char("X"), Op>>

\* the buffer when the Esc arm of ex_i_event reaches its call of mode_normal
EscBeforeSwitch ==
    mto_left(repeat([B EXCEPT !.last_inserts = Append(@, Esc)]), 1, "LineBound")

\* C13: a switch of mode changes the mode tag only.  mode_normal() and
\* mode_insert() leave the head, its text, its cursor and the history as
\* they are, and change nothing at all in the mode the buffer is already in;
\* the switch on_event makes for Insert(n, None) leaves them as they are, and
\* the switch at the end of Esc leaves them as the Esc arm had them.
C13_ModeSwitchKeepsHead ==
    [][/\ (pc = "idle" /\ evnt' \in {ApiCall("mode_normal"), ApiCall("mode_insert")}) =>
            /\ nodes' = nodes /\ change' = change
            /\ mode' = (IF evnt' = ApiCall("mode_normal") THEN "normal" ELSE "insert")
            /\ UNCHANGED <<sticky_col, insert_repeat, last_inserts, read_only,
                           mto_find_char, mto_pattern>>
       /\ (pc = "idle" /\ mode = "normal" /\ evnt'.k = "Md" /\ evnt'.m = "Insert"
              /\ evnt'.dp = "None" /\ evnt'.n >= 1) =>
            /\ mode' = "insert" /\ nodes' = nodes /\ change' = change
       /\ (pc = "idle" /\ mode = "insert" /\ evnt' = Esc /\ pc' = "idle") =>
            /\ mode' = "normal"
            /\ nodes' = EscBeforeSwitch.nodes /\ change' = EscBeforeSwitch.change]_vars
C13_Witness ==
    /\ pc = "idle" /\ evnt = ApiCall("mode_insert") /\ mode = "insert"
    /\ Len(nodes) = 3 /\ change = 3 /\ nodes[3].cursor = 2 /\ last_inserts # <<>>

\* C19: while the buffer is marked read-only no call changes its text or
\* adds a node to its history.
C19_ReadOnlyKeepsText ==
    [][(read_only /\ read_only') =>
         /\ nodes'[change'].rope = Rope(B)
         /\ Len(nodes') = Len(nodes)]_vars

\* a step that is one call of on_event in Normal mode with a motion event
MotionCall == pc = "idle" /\ mode = "normal" /\ evnt'.k = "Mt"
\* the slice of the cursor's line, without its newline
CursorLine(b) == trim_newline(line(Rope(b), char_to_line(Rope(b), to_char_cursor(b))))
\* ch occurs in the cursor's line beyond the cursor, in direction dp
CharAhead(b, ch, dp) ==
    \E i \in 1..Len(CursorLine(b)) :
       /\ CursorLine(b)[i] = ch
       /\ IF dp = "Right" THEN to_line_home(b) + i - 1 > to_char_cursor(b)
          ELSE to_line_home(b) + i - 1 < to_char_cursor(b)
\* ch occurs in the text beyond the cursor (the cursor's place included when
\* the travel is to the right), in direction dp
BracketAhead(b, ch, dp) ==
    \E i \in 1..Len(Rope(b)) :
       /\ Rope(b)[i] = ch
       /\ IF dp = "Right" THEN i - 1 >= to_char_cursor(b) ELSE i - 1 < to_char_cursor(b)
\* the offsets at which the literal patt occurs in the text
Occurs(text, patt) ==
    {i \in 0..Len(text) : i + Len(patt) <= Len(text)
                           /\ SubSeq(text, i + 1, i + Len(patt)) = patt}
\* the motion e has no target in the buffer b
NoTarget(b, e) ==
    \/ e.m \in {"CharF", "CharT"} /\ e.ch # "" /\ e.dp \in {"Left", "Right"}
          /\ ~CharAhead(b, e.ch, e.dp)
    \/ e.m = "Bracket" /\ e.dp \in {"Left", "Right"} /\ ~BracketAhead(b, e.ch, e.dp)
    \/ e.m = "Pattern" /\ e.ch # "" /\ e.ch \notin BadPatterns /\ e.dp \in {"Left", "Right"}
          /\ Cardinality(Occurs(Rope(b), chars(e.ch))) < Max(e.n, 1)

\* C14: a motion that finds no target (CharF/CharT whose character is not in
\* the line in the travel direction, Bracket with no bracket, Pattern with no
\* match or fewer matches than the count) returns Ok and leaves the cursor
\* where it was.
C14_NotFoundIsNoop ==
    [][(MotionCall /\ CursorInRope(B) /\ NoTarget(B, evnt')) =>
         /\ pc' = "idle"
         /\ ret' = [st |-> "Ok", ev |-> Noop]
         /\ nodes'[change'].cursor = to_char_cursor(B)]_vars

\* C15: a Pattern motion whose pattern does not compile returns BadPattern
\* and leaves every part of the buffer as it was: text, cursor, mode, history,
\* sticky column, last find-character command and last search pattern.
C15_BadPatternKeepsState ==
    [][(MotionCall /\ evnt'.m = "Pattern" /\ evnt'.ch \in BadPatterns) =>
         /\ pc' = "idle"
         /\ ret'.st = "BadPattern"
         /\ UNCHANGED <<nodes, change, mode, sticky_col, mto_find_char, mto_pattern>>]_vars

\* the qualifiers a motion does not support
Unsupported(e) ==
    \/ e.m \in {"LineHome", "LineEnd"} /\ e.dp \notin {"TextCol", "StickyCol", "None"}
    \/ e.m \in {"Up", "Down"} /\ e.dp \notin {"TextCol", "None"}
    \/ e.m \in {"Left", "Right"} /\ e.dp \notin {"LineBound", "Nobound"}

\* C16: a motion given a qualifier it does not support returns Fatal and has
\* no effect: cursor, text, history and sticky column are as before the call.
C16_UnsupportedQualifierAborts ==
    [][(MotionCall /\ CursorInRope(B) /\ Unsupported(evnt')) =>
         /\ pc' = "idle"
         /\ ret'.st = "Fatal"
         /\ UNCHANGED <<nodes, change, sticky_col>>]_vars

\* the start of the n-th match of a forward search from offset o: the matches
\* in text order from the first one that ends beyond o, wrapping to the first
\* match of the text after the last
Ahead(starts, len, o) == {x \in starts : x + len > o}
\* the place of the match at x in text order from the match at from, wrapping
Place(x, from, n_chars) == IF x >= from THEN x - from ELSE x - from + n_chars + 1
Several(starts, from, k, n_chars) ==
    CHOOSE x \in starts :
       Cardinality({y \in starts : Place(y, from, n_chars) < Place(x, from, n_chars)}) = k
ForwardMatch(starts, len, o, n, n_chars) ==
    Several(starts,
            IF Ahead(starts, len, o) = {} THEN 0
            ELSE CHOOSE x \in Ahead(starts, len, o) : \A y \in Ahead(starts, len, o) : x <= y,
            n - 1, n_chars)

\* C20: Pattern(n, patt, Right) from offset o moves the cursor to the n-th
\* match counted from the match nearest ahead of o (the first that starts at
\* or after o, or contains o), in text order, wrapping after the last match
\* to the first: "foo bar foo", "foo", cursor 4 gives 8 for n = 1, 0 for n = 2.
C20_ForwardSearchNearestAhead ==
    [][(MotionCall /\ CursorInRope(B) /\ evnt'.m = "Pattern" /\ evnt'.dp = "Right"
          /\ evnt'.ch # "" /\ evnt'.ch \notin BadPatterns
          /\ evnt'.n \in 1..Cardinality(Occurs(Rope(B), chars(evnt'.ch)))) =>
         /\ pc' = "idle"
         /\ nodes'[change'].cursor =
               ForwardMatch(Occurs(Rope(B), chars(evnt'.ch)), Len(chars(evnt'.ch)),
                            to_char_cursor(B), evnt'.n, len_chars(Rope(B)))]_vars

\* the text without its character at offset c
Without(t, c) == [k \in 1..(Len(t) - 1) |-> IF k <= c THEN t[k] ELSE t[k + 1]]

\* C17: the edits of Insert mode saturate at the ends of the text: Backspace
\* at offset 0 and Delete at the end of the text return Ok and leave the text
\* as it is; elsewhere Delete removes the one character at the cursor and
\* Backspace the one character before it.
C17_EditsSaturate ==
    [][(pc = "idle" /\ mode = "insert" /\ CursorInRope(B)
          /\ evnt' \in {Backspace, Delete}) =>
         /\ pc' = "idle"
         /\ ret' = [st |-> "Ok", ev |-> Noop]
         /\ nodes'[change'].rope =
               IF evnt' = Backspace
               THEN (IF to_char_cursor(B) = 0 THEN Rope(B)
                     ELSE Without(Rope(B), to_char_cursor(B) - 1))
               ELSE (IF to_char_cursor(B) = len_chars(Rope(B)) THEN Rope(B)
                     ELSE Without(Rope(B), to_char_cursor(B)))]_vars

\* the text of the node the head was cloned from
PrevRope == nodes[to_change(B).children[1]].rope

\* C18: inserting a string t at an offset c, 0 <= c <= length, and then
\* removing the span [c, c + len(t)) with remove_at(Included(c),
\* Excluded(c + len(t))) gives the text there was before the insert, the
\* empty string and c = length included; and Char(ch) followed by Backspace
\* in Insert mode gives the text there was before Char.
C18_InsertRemoveRoundTrip ==
    [][/\ (pc = "idle" /\ evnt.k = "cmd_insert" /\ evnt'.k = "cmd_remove_at") =>
            (pc' = "idle" /\ nodes'[change'].rope = PrevRope)
       /\ (pc = "idle" /\ mode = "insert" /\ evnt = Char("X") /\ ret.st = "Ok"
              /\ evnt' = Backspace) =>
            (pc' = "idle" /\ nodes'[change'].rope = PrevRope)]_vars

\* the enumerate indexes, from i on, of the brackets `target` among items
\* that are not part of a nested pair opened by `nester`
RECURSIVE Unnested(_, _, _, _, _)
Unnested(items, i, depth, target, nester) ==
    IF i >= Len(items) THEN <<>>
    ELSE IF items[i + 1] = nester THEN Unnested(items, i + 1, depth + 1, target, nester)
    ELSE IF items[i + 1] = target
    THEN (IF depth > 0 THEN Unnested(items, i + 1, depth - 1, target, nester)
          ELSE <<i>> \o Unnested(items, i + 1, 0, target, nester))
    ELSE Unnested(items, i + 1, depth, target, nester)

\* the unnested brackets a walk from the cursor of b meets: those that close
\* on a walk to the Right, those that open on a walk to the Left
UnnestedFrom(b, open, close, dp) ==
    IF dp = "Right"
    THEN Unnested(rope_items(Rope(b), to_char_cursor(b), dp), 0, 0, close, open)
    ELSE Unnested(rope_items(Rope(b), to_char_cursor(b), dp), 0, 0, open, close)
\* the offset of the bracket met at enumerate index i
BracketOffset(b, dp, i) ==
    IF dp = "Right" THEN to_char_cursor(b) + i ELSE to_char_cursor(b) - (i + 1)

\* C21: Bracket(n, open, close, dir) stops on the n-th bracket, met on the
\* walk from the cursor in direction dir, that is not part of a nested pair;
\* "(a(b)c)" with the cursor at 1 and Bracket(1, '(', ')', Right) gives 6.
C21_BracketNthUnnested ==
    [][(MotionCall /\ CursorInRope(B) /\ evnt'.m = "Bracket"
          /\ evnt'.ch = "(" /\ evnt'.pos = ")" /\ evnt'.dp \in {"Left", "Right"}
          /\ to_char_cursor(B) < len_chars(Rope(B))
          /\ Rope(B)[to_char_cursor(B) + 1] \notin {"(", ")"}
          /\ evnt'.n \in 1..Len(UnnestedFrom(B, "(", ")", evnt'.dp))) =>
         /\ pc' = "idle"
         /\ nodes'[change'].cursor =
               BracketOffset(B, evnt'.dp, UnnestedFrom(B, "(", ")", evnt'.dp)[evnt'.n])]_vars

\* the number of characters of line l of rope r, its newline left out
LineChars(r, l) == Len(trim_newline(line(r, l)))
\* the offset of the last non-newline column of line l (its home when empty)
LastColumn(r, l) == line_to_char(r, l) + saturating_sub(LineChars(r, l), 1)
\* the line n - 1 lines below the line of the cursor, clamped to the last line
LineBelow(b, n) ==
    Min(char_to_line(Rope(b), to_char_cursor(b)) + (n - 1), len_lines(Rope(b)) - 1)

\* C29: LineEnd(n, None) puts the cursor on the last non-newline column of
\* the line n - 1 lines below the current one (clamped to the last line),
\* whatever the starting column; the cursor is on that line and never beyond
\* the end of the text.
C29_LineEndLastColumn ==
    [][(MotionCall /\ CursorInRope(B) /\ evnt'.m = "LineEnd" /\ evnt'.dp = "None"
          /\ evnt'.n >= 1) =>
         /\ pc' = "idle"
         /\ nodes'[change'].cursor = LastColumn(Rope(B), LineBelow(B, evnt'.n))
         /\ nodes'[change'].cursor <= len_chars(Rope(B))]_vars

\* where Left(n, LineBound) and Right(n, LineBound) land from cursor c on a
\* line with home offset h and k non-newline characters
BoundLeft(c, h, n) == Max(h, c - n)
BoundRight(c, h, k, n) == IF k = 0 THEN h ELSE Min(c + n, h + k - 1)

\* C30: Left(n, LineBound) and Right(n, LineBound) never move the cursor off
\* its line: Left lands on max(h, c - n), Right on min(c + n, h + k - 1), and
\* on an empty line (k = 0) the cursor stays at h.
C30_LineBoundStaysOnLine ==
    [][(MotionCall /\ CursorInRope(B) /\ evnt'.m \in {"Left", "Right"}
          /\ evnt'.dp = "LineBound" /\ evnt'.n >= 1) =>
         /\ pc' = "idle"
         /\ nodes'[change'].cursor =
               IF evnt'.m = "Left"
               THEN BoundLeft(to_char_cursor(B), to_line_home(B), evnt'.n)
               ELSE BoundRight(to_char_cursor(B), to_line_home(B),
                               LineChars(Rope(B), char_to_line(Rope(B), to_char_cursor(B))),
                               evnt'.n)
         /\ char_to_line(Rope(B), nodes'[change'].cursor)
               = char_to_line(Rope(B), to_char_cursor(B))]_vars

\* the events the insert log is to hold
Logged(e) == e.k \in {"Char", "Backspace", "Delete", "Enter", "Tab"}

\* C25: in Insert mode the insert log holds exactly the Char, Backspace,
\* Delete, Enter and Tab events consumed since the session began, in arrival
\* order: a call that stays in Insert mode appends such an event to the log
\* and leaves the log alone for Noop and for events passed through.
C25_InsertLogExact ==
    [][(pc = "idle" /\ mode = "insert" /\ pc' = "idle" /\ mode' = "insert") =>
         last_inserts' = IF Logged(evnt') THEN Append(last_inserts, evnt')
                         ELSE last_inserts]_vars

\* the nodes met following owned_children from node i, at most fuel links
RECURSIVE OwnedPath(_, _, _)
OwnedPath(ns, i, fuel) ==
    IF fuel = 0 \/ ns[i].children = <<>> THEN <<i>>
    ELSE <<i>> \o OwnedPath(ns, ns[i].children[1], fuel - 1)
\* the path from the head of the history ns
HeadPath(ns, head) == OwnedPath(ns, head, Len(ns))
\* the path p from the head holds every node of ns once and ends in the root
EndsInRoot(ns, p) ==
    /\ Len(p) = Len(ns)
    /\ {p[i] : i \in 1..Len(p)} = 1..Len(ns)
    /\ p[Len(p)] = 1
    /\ ns[1].children = <<>>
SinglePath(ns, head) ==
    /\ \A i \in 1..Len(ns) : Len(ns[i].children) <= 1
    /\ EndsInRoot(ns, HeadPath(ns, head))

\* C26: the history is a single path: every node owns at most one child and
\* the owned children lead from the head to the root, which owns none; each
\* applied Char/Enter/Tab/Backspace/Delete edit adds exactly one node to the
\* path, and motions and mode switches add none.
C26_HistoryIsPath ==
    [][/\ SinglePath(nodes, change)
       /\ SinglePath(nodes', change')
       /\ (pc = "idle" /\ pc' = "idle") =>
            Len(HeadPath(nodes', change')) =
              Len(HeadPath(nodes, change))
                + (IF mode = "insert" /\ Logged(evnt') THEN 1 ELSE 0)]_vars
C26_Witness ==
    /\ pc = "idle" /\ mode = "insert" /\ evnt = Delete
    /\ Len(HeadPath(nodes, change)) = 3

\* the buffer on which the Esc arm makes its move: Esc is in the log and
\* repeat() has run
AfterReplay == repeat([B EXCEPT !.last_inserts = Append(@, Esc)])
\* one to the left of the cursor of r, bounded to its line
EscLands(r) == Max(to_line_home(r), to_char_cursor(r) - 1)
\* the offset of the last non-newline character of the line of the cursor of r
LastOfLine(r) ==
    to_line_home(r) + LineChars(Rope(r), char_to_line(Rope(r), to_char_cursor(r))) - 1

\* C27: on Esc in Insert mode, after any replay, the cursor moves left by one
\* bounded to its line: with c the cursor and h the home of its line before
\* the move, the cursor in Normal mode is max(h, c - 1); on a line that is not
\* empty it is not past the last non-newline character of the line.
C27_EscMovesLeftInLine ==
    [][(pc = "idle" /\ mode = "insert" /\ evnt' = Esc /\ pc' = "idle") =>
         /\ mode' = "normal"
         /\ nodes'[change'].cursor = EscLands(AfterReplay)
         /\ (LastOfLine(AfterReplay) >= to_line_home(AfterReplay) =>
               nodes'[change'].cursor <= LastOfLine(AfterReplay))]_vars
C27_Witness ==
    /\ pc = "idle" /\ evnt = Esc /\ mode = "normal"
    /\ to_line_home(B) > 0
    /\ to_char_cursor(B) = LastOfLine(B)

\* C28: whenever the buffer is in Normal mode between two calls, insert_repeat
\* is 0 and the insert log is empty: nothing of a finished or aborted insert
\* session is left for the next one.
C28_NormalModeHoldsNoSession ==
    (pc = "idle" /\ mode = "normal") => (insert_repeat = 0 /\ last_inserts = <<>>)

\* the class of a character: a word is a maximal run of one class that is
\* not whitespace
Class(ch) ==
    IF is_whitespace(ch) THEN "space"
    ELSE IF is_alphanumeric(ch) THEN "alphanumeric" ELSE "punctuation"
\* the offsets of the first and of the last characters of the words of r
WordStarts(r) ==
    {i \in 0..(Len(r) - 1) :
        Class(r[i + 1]) # "space" /\ (i = 0 \/ Class(r[i]) # Class(r[i + 1]))}
WordEnds(r) ==
    {i \in 0..(Len(r) - 1) :
        Class(r[i + 1]) # "space" /\ (i = Len(r) - 1 \/ Class(r[i + 2]) # Class(r[i + 1]))}
Least(S) == CHOOSE x \in S : \A y \in S : x <= y
\* where Word(1, Right, pos) may stop from offset c: the start of the next
\* word; the end of the current word, or of the next one when c is not inside
\* a word or is the end of its word
WordTarget(r, c, pos) ==
    IF pos = "Start"
    THEN (IF {i \in WordStarts(r) : i > c} = {} THEN {}
          ELSE {Least({i \in WordStarts(r) : i > c})})
    ELSE (IF {i \in WordEnds(r) : i >= c} = {} THEN {}
          ELSE {Least({i \in WordEnds(r) : i >= c})})
         \cup (IF {i \in WordEnds(r) : i > c} = {} \/ c \notin WordEnds(r) THEN {}
               ELSE {Least({i \in WordEnds(r) : i > c})})
\* the call of Word(1, Right, pos) has started with the cursor at c
WordCall(pos, c) ==
    /\ pc = "words" /\ evnt = MtW("Word", 1, "Right", pos) /\ wctx.left = 1
    /\ to_char_cursor(B) = c

\* C22: Word(1, Right, Start) moves the cursor to the first character of the
\* next word, Word(1, Right, End) to the last character of the current or
\* next word; "abc def\nghi" from 0 gives 4, and End from there gives 6.
\* (The panic that ends a call whose loop counter overflows, in a build with
\* overflow checks, is left aside: the call is to come to its end.)
C22_WordRightReachesTarget ==
    \A c \in 0..Len(ABC_DEF_GHI) : \A pos \in {"Start", "End"} :
        (WordCall(pos, c) /\ WordTarget(Rope(B), c, pos) # {})
            ~> \/ pc = "panicked"
               \/ (pc = "idle" /\ to_char_cursor(B) \in WordTarget(Rope(B), c, pos))

\* C23: from the start of the last word on, every Word(1, Right, Start)
\* returns with the cursor not moved backward and not past the end of the
\* text; it moves the cursor forward until the end of the buffer is reached
\* and leaves it there afterwards.  (The panic of an overflowing loop counter
\* is left aside, as for the single motion.)
C23_WordRightStopsAtEnd ==
    \A c \in 0..Len(ABC_DEF_GHI) :
        (WordCall("Start", c) /\ WordStarts(Rope(B)) # {}
           /\ \A i \in WordStarts(Rope(B)) : i <= c)
            ~> \/ pc = "panicked"
               \/ /\ pc = "idle"
                  /\ to_char_cursor(B) >= c
                  /\ to_char_cursor(B) <= len_chars(Rope(B))
                  /\ (c < len_chars(Rope(B)) - 1 => to_char_cursor(B) > c)
                  /\ (c = len_chars(Rope(B)) => to_char_cursor(B) = c)

\* the numbers of the buffers rise in the order of their construction
Rising(bs) == \A i, j \in 1..Len(bs) : i < j => bs[i].num < bs[j].num

\* C24: every buffer constructed gets a number greater than the number of
\* every buffer constructed before it, so no two buffers share a number, also
\* when several threads construct buffers at once; a construction that fails
\* with FailBuffer makes no buffer.
C24_BufferNumbersRise ==
    [][/\ Rising(buffers')
       /\ \A t \in Threads :
             (threads[t].pc = "idle" /\ threads'[t].pc = "err") =>
                (buffers' = buffers /\ BUFFER_NUM' = BUFFER_NUM)
       /\ \A t \in Threads :
             (threads[t].pc = "err" /\ threads'[t].pc = "idle") => buffers' = buffers]_vars
C24_Witness ==
    /\ Len(buffers) >= 2
    /\ buffers[1].by # buffers[2].by
    /\ \E t \in Threads : threads[t].pc = "lock" /\ BUFFER_NUM.holder \notin {0, t}

\* the offsets at which ch occurs in the cursor's line beyond the cursor, in
\* direction dp
CharOffsets(b, ch, dp) ==
    {to_line_home(b) + i - 1 : i \in {j \in 1..Len(CursorLine(b)) :
        /\ CursorLine(b)[j] = ch
        /\ IF dp = "Right" THEN to_line_home(b) + j - 1 > to_char_cursor(b)
           ELSE to_line_home(b) + j - 1 < to_char_cursor(b)}}
\* the n-th of the offsets S, counted from the cursor in direction dp
NthFrom(S, n, dp) ==
    CHOOSE x \in S :
        Cardinality({y \in S : IF dp = "Right" THEN y < x ELSE y > x}) = n - 1

\* C31: CharF(n, ch, dir) puts the cursor on the n-th occurrence of ch beyond
\* the cursor, in direction dir, within the cursor's line, and CharT(n, ch,
\* Right) one before that occurrence; for n = 1 this is the nearest one.
C31_FindCharNthInLine ==
    [][(MotionCall /\ CursorInRope(B) /\ evnt'.m \in {"CharF", "CharT"}
          /\ evnt'.ch # "" /\ evnt'.dp \in {"Left", "Right"}
          /\ (evnt'.m = "CharT" => evnt'.dp = "Right")
          /\ evnt'.n \in 1..Cardinality(CharOffsets(B, evnt'.ch, evnt'.dp))) =>
         /\ pc' = "idle"
         /\ nodes'[change'].cursor =
               NthFrom(CharOffsets(B, evnt'.ch, evnt'.dp), evnt'.n, evnt'.dp)
                 - (IF evnt'.m = "CharT" THEN 1 ELSE 0)]_vars

\* the other direction
Opposite(dp) == IF dp = "Left" THEN "Right" ELSE "Left"
\* the command CharR(n, d) is to run again: the remembered find f with the
\* count n, in its own direction for d = Right and the opposite one for Left
Again(f, n, d) == [f EXCEPT !.n = n, !.dp = IF d = "Right" THEN f.dp ELSE Opposite(f.dp)]
\* the call on the buffer has come to the result r
ComesTo(r) ==
    /\ nodes' = r.nodes /\ change' = r.change /\ sticky_col' = r.sticky_col
    /\ mode' = r.mode /\ pc' = PcOf(r) /\ ret' = RetOf(r)

\* C32: CharR(n, d) does what the last CharF/CharT given to the buffer does
\* with the count n, in its own direction for d = Right and in the opposite
\* one for d = Left; it leaves the remembered command as it was, and with no
\* find made before it changes nothing and returns Noop.
C32_CharRepeatsLastFind ==
    [][(MotionCall /\ evnt'.m = "CharR" /\ evnt'.dp \in {"Left", "Right"}) =>
         /\ mto_find_char' = mto_find_char
         /\ IF mto_find_char.m = "None"
            THEN ComesTo(Returns(B, Noop))
            ELSE ComesTo(on_event(B, Again(mto_find_char, evnt'.n, evnt'.dp)))]_vars
C32_Witness ==
    /\ pc = "idle" /\ evnt = Mt("CharR", 2, "Left")
    /\ mto_find_char.m = "CharF" /\ mto_find_char.dp = "Left"
    /\ Rope(B) = NESTED /\ to_char_cursor(B) = 4

\* the row and the column of the cursor of b
RowOf(b) == char_to_line(Rope(b), to_char_cursor(b))
\* the row Up(n) / Down(n) is to reach from the row `row` of the rope r
VerticalRow(r, m, row, n) ==
    IF m = "Down" THEN Min(row + n, len_lines(r) - 1) ELSE Max(row - n, 0)
\* the column on a line of L characters for the column col before the motion
VerticalCol(L, col) == IF L = 0 THEN 0 ELSE Min(L - 1, col)
\* the offset of column col of the row `row`
OffsetAt(r, row, col) == line_to_char(r, row) + VerticalCol(LineChars(r, row), col)

\* C33: Down(n, None) and Up(n, None) put the cursor on row min(row + n, last
\* row) and max(row - n, 0), in column min(L - 1, col) for the column col it
\* had and the L non-newline characters of the target line (column 0 when
\* L = 0), also on a last line without a newline.
C33_VerticalKeepsColumn ==
    [][(MotionCall /\ CursorInRope(B) /\ evnt'.m \in {"Up", "Down"}
          /\ evnt'.dp = "None" /\ evnt'.n >= 1) =>
         /\ pc' = "idle"
         /\ nodes'[change'].cursor =
               OffsetAt(Rope(B), VerticalRow(Rope(B), evnt'.m, RowOf(B), evnt'.n), to_col(B))]_vars

\* the sticky column the motion e is to leave, for the sticky column s before
StickyAfter(e, s) ==
    IF e.m \in {"Left", "Right", "Col", "CharF", "CharT", "CharR"} THEN "None"
    ELSE IF e.m \in {"LineHome", "LineEnd"} /\ e.dp \in {"None", "TextCol"} THEN "None"
    ELSE IF e.m = "LineHome" /\ e.dp = "StickyCol" THEN "Home"
    ELSE IF e.m = "LineEnd" /\ e.dp = "StickyCol" THEN "End"
    ELSE s
\* the motions the rule of the sticky column speaks of
StickyRuled(e) ==
    e.m \in {"Left", "Right", "Col", "CharF", "CharT", "CharR", "LineHome", "LineEnd",
             "Up", "Down", "Row", "Percent"}

\* C34: every characterwise motion (Left, Right, Col, CharF/CharT/CharR,
\* LineHome/LineEnd with None or TextCol) resets the sticky column to None,
\* LineHome(StickyCol) and LineEnd(n, StickyCol) set it to Home and End, and
\* Up, Down, Row and Percent, with any qualifier, leave it unchanged.
C34_StickyColumnRule ==
    [][(MotionCall /\ StickyRuled(evnt') /\ pc' = "idle" /\ ret'.st = "Ok") =>
         sticky_col' = StickyAfter(evnt', sticky_col)]_vars

\* where a vertical motion is to put the cursor on the row `row` of r once
\* the sticky column s is latched
StickyOffset(r, row, s) ==
    IF s = "Home" THEN line_to_char(r, row) ELSE LastColumn(r, row)

\* C35: while the sticky column is latched to End (by LineEnd(1, StickyCol))
\* every Up(n, None) and Down(n, None) puts the cursor at the end of its
\* target line, and while it is latched to Home (by LineHome(StickyCol)) at
\* column 0, whatever the lengths of the lines.
C35_StickyColumnSteersVertical ==
    [][(MotionCall /\ CursorInRope(B) /\ sticky_col \in {"Home", "End"}
          /\ evnt'.m \in {"Up", "Down"} /\ evnt'.dp = "None" /\ evnt'.n >= 1) =>
         /\ pc' = "idle"
         /\ sticky_col' = sticky_col
         /\ nodes'[change'].cursor =
               StickyOffset(Rope(B), VerticalRow(Rope(B), evnt'.m, RowOf(B), evnt'.n),
                            sticky_col)]_vars

\* the number of blanks and tabs that lead the row `row` of r
RECURSIVE LeadingBlanks(_, _, _)
LeadingBlanks(r, from, k) ==
    IF k = 0 \/ r[from + 1] \notin {" ", TAB} THEN 0
    ELSE 1 + LeadingBlanks(r, from + 1, k - 1)
\* where LineHome(TextCol) is to put the cursor on the row `row` of r: the
\* first non-whitespace character, and within the line when there is none
TextHome(r, row) ==
    line_to_char(r, row) + Min(LeadingBlanks(r, line_to_char(r, row), LineChars(r, row)),
                               saturating_sub(LineChars(r, row), 1))

\* C36: LineHome(TextCol) puts the cursor on the first non-whitespace
\* character of the current line and leaves it on that line: on an empty
\* line, or one of whitespace only, the cursor stays within the line.
C36_TextHomeStaysOnLine ==
    [][(MotionCall /\ CursorInRope(B) /\ evnt'.m = "LineHome" /\ evnt'.dp = "TextCol") =>
         /\ pc' = "idle"
         /\ char_to_line(Rope(B), nodes'[change'].cursor) = RowOf(B)
         /\ nodes'[change'].cursor = TextHome(Rope(B), RowOf(B))]_vars

\* C37: Cursor(n) sets the cursor to the char offset n, clamped to the
\* length of the buffer, wherever the cursor was before.
C37_CursorIsAbsolute ==
    [][(MotionCall /\ CursorInRope(B) /\ evnt'.m = "Cursor") =>
         /\ pc' = "idle"
         /\ nodes'[change'].cursor = Min(evnt'.n, len_chars(Rope(B)))]_vars

\* C38: after Percent(n) the cursor is on row floor(last_row * n / 100) for
\* n < 100 and on the last row for n >= 100, where last_row is the number of
\* lines less one, whatever row it started on.
C38_PercentRow ==
    [][(MotionCall /\ CursorInRope(B) /\ evnt'.m = "Percent") =>
         /\ pc' = "idle"
         /\ char_to_line(Rope(B), nodes'[change'].cursor) =
               IF evnt'.n < 100 THEN ((len_lines(Rope(B)) - 1) * evnt'.n) \div 100
               ELSE len_lines(Rope(B)) - 1]_vars

\* the row-major order of two Cursor values: rows first, columns when the
\* rows are equal
RowMajor(a, b) ==
    IF a.row < b.row THEN "Less"
    ELSE IF a.row > b.row THEN "Greater"
    ELSE IF a.col < b.col THEN "Less"
    ELSE IF a.col > b.col THEN "Greater"
    ELSE "Equal"

\* C39: Cursor values are totally ordered row-major: Ord::cmp and
\* PartialOrd::partial_cmp both compare the rows first and the columns only
\* when the rows are equal, the two always agree, and cmp is Equal exactly
\* when the two values are ==.
C39_CursorRowMajor ==
    ord.made =>
        /\ ord.partial_cmp = RowMajor(this, that)
        /\ ord.cmp = RowMajor(this, that)
        /\ ord.cmp = ord.partial_cmp
        /\ (ord.cmp = "Equal") <=> ord.eq

\* the events of the calls cs that op made, in the order of the calls
RECURSIVE EventsOf(_, _)
EventsOf(cs, op) ==
    IF cs = <<>> THEN <<>>
    ELSE IF cs[1].op = op THEN <<cs[1].ev>> \o EventsOf(Tail(cs), op)
    ELSE EventsOf(Tail(cs), op)
\* the events of es that are not Noop, in order
RECURSIVE NonNoop(_)
NonNoop(es) ==
    IF es = <<>> THEN <<>>
    ELSE IF es[1] = Noop THEN NonNoop(Tail(es))
    ELSE <<es[1]>> \o NonNoop(Tail(es))
\* the calls cs are pushes followed by pops, and nothing else
PushesThenPops(cs) ==
    /\ \A i \in 1..Len(cs) : cs[i].op \in {"push", "pop"}
    /\ \A i, j \in 1..Len(cs) : (cs[i].op = "pop" /\ cs[j].op = "push") => j < i
\* what the i-th pop returns from a queue of the events es
QueueAt(es, i) == IF i <= Len(es) THEN es[i] ELSE Noop

\* C40: an Event used as an accumulator is a first-in first-out queue: after
\* the non-Noop events e1, .., ek (k >= 1) were pushed onto a Noop event, the
\* pops that follow return e1, .., ek in this order and Noop from then on;
\* a push of Noop leaves the accumulator as it was.
C40_EventIsFifo ==
    /\ (PushesThenPops(calls) /\ NonNoop(EventsOf(calls, "push")) # <<>>) =>
          \A i \in 1..Len(EventsOf(calls, "pop")) :
              EventsOf(calls, "pop")[i] = QueueAt(NonNoop(EventsOf(calls, "push")), i)
    /\ (calls # <<>> /\ calls[Len(calls)] = [op |-> "push", ev |-> Noop]) =>
          acc = push(acc, Noop)

====
